---- MODULE Spec2Model ----
(***************************************************************************)
(* Model of the concurrent error/success aggregation buffer (package       *)
(* buffer): a mutex-guarded slice of errors and two atomic int64 counters, *)
(* used by any number of goroutines.  Every atomic memory operation and    *)
(* every statement executed under the mutex is one step of one thread.     *)
(*                                                                         *)
(* Counters are int64 in the source; the model never gets near 2^63, so    *)
(* the counters are plain integers here.                                   *)
(***************************************************************************)
EXTENDS Integers, Sequences, FiniteSets, TLC

\* ---------------------------------------------------------------- bounds
NumThreads == 2      \* goroutines sharing the one Buffer
MaxCalls == 3        \* calls started in one behaviour of Spec
MaxLiveCalls == 2    \* calls started in one behaviour of FairSpec
MaxFmtLen == 2       \* longest ErrBuffer the behaviours of SpecFormat start from

Threads == 1..NumThreads

\* ---------------------------------------------------------------- errors
\* A Go error value: nil, or a non-nil error with its message.
Nil == <<>>
Err(m) == <<m>>
Causes == {Err("x"), Err("y"), Nil}

\* ---------------------------------------------------------------- state
VARIABLES
  mu,            \* Buffer.mu: 0 when unlocked, else the thread holding it
  ErrBuffer,     \* Buffer.ErrBuffer
  SuccessCount,  \* Buffer.SuccessCount
  ErrorCount,    \* Buffer.ErrorCount
  pc,            \* per thread: "idle" or the statement it executes next
  op,            \* per thread: the Buffer method it is in, or returned from last
  item,          \* per thread: AddError's argument while the call runs
  contents,      \* per thread: FlushErrorBuffer's local copy / return value
  aggr,          \* per thread: GetAggregation's Aggregation value
  ret,           \* per thread: what GetSuccessCount / GetErrorCount returned
  report,        \* per thread: what GetAggregation returned
  \* history variables (not program state)
  calls,         \* calls started so far
  nSucc,         \* IncrementSuccess calls completed
  nErr,          \* IncrementError calls completed
  resets,        \* "none", "agg" (only GetAggregation has reset), "plain" (resetCounts was called)
  log,           \* every cause appended so far, in append order
  drained,       \* concatenation of what the completed drains returned
  repS,          \* sum of the SuccessCount of the reports returned
  repE,          \* sum of the ErrorCount of the reports returned
  unpaired,      \* some thread did not follow the AddError-then-IncrementError discipline
  dirty,         \* per thread in or after a reset: an increment took effect since its reset began
  \* the validator RPC core service (package core, validator.go)
  req,           \* the request of the one ComputeValidatorPerformance / IndividualVotes call
  st,            \* the beacon state that call works on
  resp,          \* what that call returned
  attCache,      \* Service.AttestationCache: the one entry it holds
  attLock,       \* Service.AttestationCache's RWMutex: its writer and its readers
  chain,         \* what the fetchers see: the clock's slot and the head
  att,           \* per GetAttestationData request: its position, locals and result
  sub,           \* the one SubmitSignedContributionAndProof / SubmitSyncMessage call
  gor,           \* the goroutines of that call's errgroup
  pool,          \* SyncCommitteeObjectPool: what was saved
  feed           \* OperationNotifier.OperationFeed(): events sent

bufVars == <<mu, ErrBuffer, SuccessCount, ErrorCount, pc, op, item, contents, aggr,
             ret, report, calls, nSucc, nErr, resets, log, drained, repS, repE,
             unpaired, dirty>>
rpcVars == <<req, st, resp, attCache, attLock, chain, att, sub, gor, pool, feed>>
queryVars == <<req, st, resp>>
attVars == <<attCache, attLock, chain, att>>
subVars == <<sub, gor, pool, feed>>

vars == <<mu, ErrBuffer, SuccessCount, ErrorCount, pc, op, item, contents, aggr,
          ret, report, calls, nSucc, nErr, resets, log, drained, repS, repE,
          unpaired, dirty,
          req, st, resp, attCache, attLock, chain, att, sub, gor, pool, feed>>

prog == <<mu, ErrBuffer, SuccessCount, ErrorCount>>
hist == <<nSucc, nErr, resets, log, drained, repS, repE>>

ZeroAggregation == [SuccessCount |-> 0, ErrorCount |-> 0, Errors |-> <<>>]

\* The core service with no request made: nothing asked or answered, an empty
\* attestation cache with its lock free, no errgroup goroutine, nothing in the
\* sync committee pool, nothing sent to the operation feed.
NoCall == [rpc |-> "none"]
NoEntry == [nil |-> TRUE]
Unlocked == [w |-> 0, r |-> {}]

ServiceIdle ==
  /\ req = NoCall
  /\ st = NoCall
  /\ resp = NoCall
  /\ attCache = NoEntry
  /\ attLock = Unlocked
  /\ chain = NoCall
  /\ att = <<>>
  /\ sub = NoCall
  /\ gor = <<>>
  /\ pool = <<>>
  /\ feed = <<>>

\* New(): an empty, non-nil ErrBuffer, zero counters, unlocked mutex.
New ==
  /\ mu = 0
  /\ ErrBuffer = <<>>
  /\ SuccessCount = 0
  /\ ErrorCount = 0

Fresh ==
  /\ New
  /\ pc = [t \in Threads |-> "idle"]
  /\ op = [t \in Threads |-> "none"]
  /\ item = [t \in Threads |-> Nil]
  /\ contents = [t \in Threads |-> <<>>]
  /\ aggr = [t \in Threads |-> ZeroAggregation]
  /\ ret = [t \in Threads |-> 0]
  /\ report = [t \in Threads |-> ""]
  /\ calls = 0
  /\ nSucc = 0
  /\ nErr = 0
  /\ resets = "none"
  /\ log = <<>>
  /\ drained = <<>>
  /\ repS = 0
  /\ repE = 0
  /\ unpaired = FALSE
  /\ dirty = [t \in Threads |-> FALSE]

Init == Fresh /\ ServiceIdle

\* ---------------------------------------------------------------- helpers
\* sync/atomic on one int64 word.
\* atomic.AddInt64 with the sign of delta lost.
AtomicSubInt64(v, delta) == v - delta

AtomicAddInt64(v, delta) == v + delta
AtomicLoadInt64(v) == v

\* A thread starts method o with argument c (r: the int64 it returns, 0 if
\* none): the bound on calls, the locals of the new frame, and the bookkeeping
\* of the producer discipline (an AddError is followed by that thread's
\* IncrementError, and an IncrementError follows its AddError).
Begin(t, o, c, r) ==
  /\ pc[t] = "idle"
  /\ calls < MaxCalls
  /\ calls' = calls + 1
  /\ op' = [op EXCEPT ![t] = o]
  /\ item' = [item EXCEPT ![t] = c]
  /\ contents' = [contents EXCEPT ![t] = <<>>]
  /\ aggr' = [aggr EXCEPT ![t] = ZeroAggregation]
  /\ report' = [report EXCEPT ![t] = ""]
  /\ ret' = [ret EXCEPT ![t] = r]
  /\ unpaired' = (unpaired \/ ((op[t] = "AddError") # (o = "IncrementError")))

\* The threads, other than t, that are in or just after a reset of the counters.
InReset(u) ==
  \/ pc[u] = "reset_E"
  \/ pc[u] = "idle" /\ op[u] \in {"resetCounts", "GetAggregation"}

Touched(t) == [u \in Threads |-> u # t /\ InReset(u)]
Untouched(t) == [dirty EXCEPT ![t] = FALSE]

\* ---------------------------------------------------------------- counters
\* IncrementSuccess with a plain, non-atomic b.SuccessCount++ : the update of a
\* concurrent increment can be overwritten, so the add may be lost.
IncrementSuccessRacy(t) ==
  /\ Begin(t, "IncrementSuccess", Nil, 0)
  /\ SuccessCount' \in {SuccessCount, AtomicAddInt64(SuccessCount, 1)}
  /\ nSucc' = nSucc + 1
  /\ dirty' = Touched(t)
  /\ UNCHANGED <<rpcVars, mu, ErrBuffer, ErrorCount, pc, nErr, resets, log, drained, repS, repE>>

\* IncrementSuccess taking b.mu around its add.
IncrementSuccessLocked(t) ==
  /\ mu = 0
  /\ Begin(t, "IncrementSuccess", Nil, 0)
  /\ SuccessCount' = AtomicAddInt64(SuccessCount, 1)
  /\ nSucc' = nSucc + 1
  /\ dirty' = Touched(t)
  /\ UNCHANGED <<rpcVars, mu, ErrBuffer, ErrorCount, pc, nErr, resets, log, drained, repS, repE>>

IncrementSuccess(t) ==
  /\ Begin(t, "IncrementSuccess", Nil, 0)
  /\ SuccessCount' = AtomicAddInt64(SuccessCount, 1)
  /\ nSucc' = nSucc + 1
  /\ dirty' = Touched(t)
  /\ UNCHANGED <<rpcVars, mu, ErrBuffer, ErrorCount, pc, nErr, resets, log, drained, repS, repE>>

\* IncrementError adding to the wrong counter (a copy of IncrementSuccess).
IncrementErrorWrongCounter(t) ==
  /\ Begin(t, "IncrementError", Nil, 0)
  /\ SuccessCount' = AtomicAddInt64(SuccessCount, 1)
  /\ nErr' = nErr + 1
  /\ dirty' = Touched(t)
  /\ UNCHANGED <<rpcVars, mu, ErrBuffer, ErrorCount, pc, nSucc, resets, log, drained, repS, repE>>

IncrementError(t) ==
  /\ Begin(t, "IncrementError", Nil, 0)
  /\ ErrorCount' = AtomicAddInt64(ErrorCount, 1)
  /\ nErr' = nErr + 1
  /\ dirty' = Touched(t)
  /\ UNCHANGED <<rpcVars, mu, ErrBuffer, SuccessCount, pc, nSucc, resets, log, drained, repS, repE>>

GetSuccessCount(t) ==
  /\ Begin(t, "GetSuccessCount", Nil, AtomicLoadInt64(SuccessCount))
  /\ dirty' = Untouched(t)
  /\ UNCHANGED <<rpcVars, prog, pc, hist>>

GetErrorCount(t) ==
  /\ Begin(t, "GetErrorCount", Nil, AtomicLoadInt64(ErrorCount))
  /\ dirty' = Untouched(t)
  /\ UNCHANGED <<rpcVars, prog, pc, hist>>

\* resetCounts zeroing both counters in one step (as if under one lock).
ResetBothAtOnce(t) ==
  /\ \/ /\ Begin(t, "resetCounts", Nil, 0)
        /\ resets' = "plain"
     \/ /\ pc[t] = "reset_S"
        /\ resets' = IF resets = "plain" THEN "plain" ELSE "agg"
        /\ UNCHANGED <<op, item, contents, aggr, ret, report, calls, unpaired>>
  /\ SuccessCount' = 0
  /\ ErrorCount' = 0
  /\ pc' = [pc EXCEPT ![t] = "reset_E"]
  /\ dirty' = Untouched(t)
  /\ UNCHANGED <<rpcVars, mu, ErrBuffer, nSucc, nErr, log, drained, repS, repE>>

\* resetCounts, first statement: atomic.StoreInt64(&b.SuccessCount, 0).  Taken
\* either as the first step of a call of resetCounts or by GetAggregation
\* after its drain.
ResetSuccess(t) ==
  /\ \/ /\ Begin(t, "resetCounts", Nil, 0)
        /\ resets' = "plain"
     \/ /\ pc[t] = "reset_S"
        /\ resets' = IF resets = "plain" THEN "plain" ELSE "agg"
        /\ UNCHANGED <<op, item, contents, aggr, ret, report, calls, unpaired>>
  /\ SuccessCount' = 0
  /\ pc' = [pc EXCEPT ![t] = "reset_E"]
  /\ dirty' = Untouched(t)
  /\ UNCHANGED <<rpcVars, mu, ErrBuffer, ErrorCount, nSucc, nErr, log, drained, repS, repE>>

\* ---------------------------------------------------------------- formatting
\* fmt's %d of a digit and of an int64.
Digit(d) ==
  CASE d = 0 -> "0" [] d = 1 -> "1" [] d = 2 -> "2" [] d = 3 -> "3" [] d = 4 -> "4"
    [] d = 5 -> "5" [] d = 6 -> "6" [] d = 7 -> "7" [] d = 8 -> "8" [] d = 9 -> "9"

RECURSIVE Itoa(_)
Itoa(n) ==
  IF n < 0 THEN "-" \o Itoa(-n)
  ELSE IF n < 10 THEN Digit(n)
  ELSE Itoa(n \div 10) \o Digit(n % 10)

\* fmt's %v of an error: its Error() text, "<nil>" for a nil error.
FormatV(e) == IF e = Nil THEN "<nil>" ELSE e[1]

\* The detail lines numbered from 0 (the range index printed as it is).
RECURSIVE DetailLinesFromZero(_, _)
DetailLinesFromZero(errs, i) ==
  IF i >= Len(errs) THEN ""
  ELSE "    " \o Itoa(i) \o ": " \o FormatV(errs[i + 1]) \o "\n"
       \o DetailLinesFromZero(errs, i + 1)

\* The loop of FormatOutput from Go index i on: one line per error, numbered i+1.
RECURSIVE DetailLines(_, _)
DetailLines(errs, i) ==
  IF i >= Len(errs) THEN ""
  ELSE "    " \o Itoa(i + 1) \o ": " \o FormatV(errs[i + 1]) \o "\n"
       \o DetailLines(errs, i + 1)

FormatOutput(a) ==
  "Aggregation Summary:\n"
  \o ("  Successes: " \o Itoa(a.SuccessCount) \o "\n")
  \o ("  Errors: " \o Itoa(a.ErrorCount) \o "\n")
  \o (IF Len(a.Errors) > 0
        THEN "  Error Details:\n" \o DetailLines(a.Errors, 0)
        ELSE "")

\* ---------------------------------------------------------------- resetCounts
\* resetCounts storing to SuccessCount twice: ErrorCount is never zeroed.
ResetErrorWrongCounter(t) ==
  /\ pc[t] = "reset_E"
  /\ SuccessCount' = 0
  /\ pc' = [pc EXCEPT ![t] = "idle"]
  /\ IF op[t] = "GetAggregation"
       THEN /\ report' = [report EXCEPT ![t] = FormatOutput(aggr[t])]
            /\ repS' = repS + aggr[t].SuccessCount
            /\ repE' = repE + aggr[t].ErrorCount
       ELSE UNCHANGED <<report, repS, repE>>
  /\ UNCHANGED <<rpcVars, mu, ErrBuffer, ErrorCount, op, item, contents, aggr, ret, calls,
                 nSucc, nErr, resets, log, drained, unpaired, dirty>>

\* resetCounts, second statement: atomic.StoreInt64(&b.ErrorCount, 0), and the
\* return; in GetAggregation the return of aggr.FormatOutput() follows.
ResetError(t) ==
  /\ pc[t] = "reset_E"
  /\ ErrorCount' = 0
  /\ pc' = [pc EXCEPT ![t] = "idle"]
  /\ IF op[t] = "GetAggregation"
       THEN /\ report' = [report EXCEPT ![t] = FormatOutput(aggr[t])]
            /\ repS' = repS + aggr[t].SuccessCount
            /\ repE' = repE + aggr[t].ErrorCount
       ELSE UNCHANGED <<report, repS, repE>>
  /\ UNCHANGED <<rpcVars, mu, ErrBuffer, SuccessCount, op, item, contents, aggr, ret, calls,
                 nSucc, nErr, resets, log, drained, unpaired, dirty>>

\* ---------------------------------------------------------------- the mutex
\* Entering AddError or FlushErrorBuffer without taking b.mu.
LockSkipped(t) ==
  /\ pc[t] \in {"add_lock", "flush_lock"}
  /\ mu' = t
  /\ pc' = [pc EXCEPT ![t] = IF pc[t] = "add_lock" THEN "add_append" ELSE "flush_copy"]
  /\ UNCHANGED <<rpcVars, ErrBuffer, SuccessCount, ErrorCount, op, item, contents, aggr, ret,
                 report, calls, hist, unpaired, dirty>>

\* b.mu.Lock(): blocks until the mutex is free.
Lock(t) ==
  /\ pc[t] \in {"add_lock", "flush_lock"}
  /\ mu = 0
  /\ mu' = t
  /\ pc' = [pc EXCEPT ![t] = IF pc[t] = "add_lock" THEN "add_append" ELSE "flush_copy"]
  /\ UNCHANGED <<rpcVars, ErrBuffer, SuccessCount, ErrorCount, op, item, contents, aggr, ret,
                 report, calls, hist, unpaired, dirty>>

\* ---------------------------------------------------------------- AddError
CallAddError(t, c) ==
  /\ Begin(t, "AddError", c, 0)
  /\ pc' = [pc EXCEPT ![t] = "add_lock"]
  /\ dirty' = Untouched(t)
  /\ UNCHANGED <<rpcVars, prog, hist>>

\* AddError that ignores a nil item.
AddErrorAppendSkipNil(t) ==
  /\ pc[t] = "add_append"
  /\ ErrBuffer' = IF item[t] = Nil THEN ErrBuffer ELSE Append(ErrBuffer, item[t])
  /\ log' = IF item[t] = Nil THEN log ELSE Append(log, item[t])
  /\ pc' = [pc EXCEPT ![t] = "add_unlock"]
  /\ UNCHANGED <<rpcVars, mu, SuccessCount, ErrorCount, op, item, contents, aggr, ret, report,
                 calls, nSucc, nErr, resets, drained, repS, repE, unpaired, dirty>>

\* AddError that also counts the error it records.
AddErrorAppendCounts(t) ==
  /\ pc[t] = "add_append"
  /\ ErrBuffer' = Append(ErrBuffer, item[t])
  /\ log' = Append(log, item[t])
  /\ ErrorCount' = AtomicAddInt64(ErrorCount, 1)
  /\ pc' = [pc EXCEPT ![t] = "add_unlock"]
  /\ UNCHANGED <<rpcVars, mu, SuccessCount, op, item, contents, aggr, ret, report,
                 calls, nSucc, nErr, resets, drained, repS, repE, unpaired, dirty>>

\* b.ErrBuffer = append(b.ErrBuffer, item)
AddErrorAppend(t) ==
  /\ pc[t] = "add_append"
  /\ ErrBuffer' = Append(ErrBuffer, item[t])
  /\ log' = Append(log, item[t])
  /\ pc' = [pc EXCEPT ![t] = "add_unlock"]
  /\ UNCHANGED <<rpcVars, mu, SuccessCount, ErrorCount, op, item, contents, aggr, ret, report,
                 calls, nSucc, nErr, resets, drained, repS, repE, unpaired, dirty>>

\* AddError returning with the mutex still held (the deferred Unlock missing).
AddErrorNoUnlock(t) ==
  /\ pc[t] = "add_unlock"
  /\ pc' = [pc EXCEPT ![t] = "idle"]
  /\ item' = [item EXCEPT ![t] = Nil]
  /\ UNCHANGED <<rpcVars, prog, op, contents, aggr, ret, report, calls, hist, unpaired, dirty>>

\* the deferred b.mu.Unlock() and the return (the frame's item goes away)
AddErrorUnlock(t) ==
  /\ pc[t] = "add_unlock"
  /\ mu' = 0
  /\ pc' = [pc EXCEPT ![t] = "idle"]
  /\ item' = [item EXCEPT ![t] = Nil]
  /\ UNCHANGED <<rpcVars, ErrBuffer, SuccessCount, ErrorCount, op, contents, aggr, ret,
                 report, calls, hist, unpaired, dirty>>

\* ---------------------------------------------------------------- FlushErrorBuffer
CallFlushErrorBuffer(t) ==
  /\ Begin(t, "FlushErrorBuffer", Nil, 0)
  /\ pc' = [pc EXCEPT ![t] = "flush_lock"]
  /\ dirty' = Untouched(t)
  /\ UNCHANGED <<rpcVars, prog, hist>>

\* make([]error, len(src)) followed by copy(dst, src)
MakeCopy(src) == [i \in 1..Len(src) |-> src[i]]

\* contents := make([]error, len(b.ErrBuffer)); copy(contents, b.ErrBuffer)
FlushCopy(t) ==
  /\ pc[t] = "flush_copy"
  /\ contents' = [contents EXCEPT ![t] = MakeCopy(ErrBuffer)]
  /\ pc' = [pc EXCEPT ![t] = "flush_clear"]
  /\ UNCHANGED <<rpcVars, prog, op, item, aggr, ret, report, calls, hist, unpaired, dirty>>

\* FlushErrorBuffer without the statement that empties the buffer.
FlushClearForgotten(t) ==
  /\ pc[t] = "flush_clear"
  /\ pc' = [pc EXCEPT ![t] = "flush_unlock"]
  /\ UNCHANGED <<rpcVars, prog, op, item, contents, aggr, ret, report, calls, hist, unpaired, dirty>>

\* FlushErrorBuffer that drops only the oldest entry of the buffer.
FlushClearDropsOne(t) ==
  /\ pc[t] = "flush_clear"
  /\ ErrBuffer' = IF ErrBuffer = <<>> THEN <<>> ELSE Tail(ErrBuffer)
  /\ pc' = [pc EXCEPT ![t] = "flush_unlock"]
  /\ UNCHANGED <<rpcVars, mu, SuccessCount, ErrorCount, op, item, contents, aggr, ret, report,
                 calls, hist, unpaired, dirty>>

\* b.ErrBuffer = []error{}
FlushClear(t) ==
  /\ pc[t] = "flush_clear"
  /\ ErrBuffer' = <<>>
  /\ pc' = [pc EXCEPT ![t] = "flush_unlock"]
  /\ UNCHANGED <<rpcVars, mu, SuccessCount, ErrorCount, op, item, contents, aggr, ret, report,
                 calls, hist, unpaired, dirty>>

\* the deferred b.mu.Unlock() and `return contents`: to the caller of
\* FlushErrorBuffer, or into aggr.Errors in GetAggregation, which goes on to
\* b.resetCounts().
FlushUnlock(t) ==
  /\ pc[t] = "flush_unlock"
  /\ mu' = 0
  /\ drained' = drained \o contents[t]
  /\ IF op[t] = "GetAggregation"
       THEN /\ aggr' = [aggr EXCEPT ![t].Errors = contents[t]]
            /\ pc' = [pc EXCEPT ![t] = "reset_S"]
       ELSE /\ pc' = [pc EXCEPT ![t] = "idle"]
            /\ UNCHANGED aggr
  /\ UNCHANGED <<rpcVars, ErrBuffer, SuccessCount, ErrorCount, op, item, contents, ret, report,
                 calls, nSucc, nErr, resets, log, repS, repE, unpaired, dirty>>

\* ---------------------------------------------------------------- GetAggregation
CallGetAggregation(t) ==
  /\ Begin(t, "GetAggregation", Nil, 0)
  /\ pc' = [pc EXCEPT ![t] = "agg_loadS"]
  /\ dirty' = Untouched(t)
  /\ UNCHANGED <<rpcVars, prog, hist>>

\* GetAggregation filling SuccessCount from b.GetErrorCount().
AggLoadSuccessFromError(t) ==
  /\ pc[t] = "agg_loadS"
  /\ aggr' = [aggr EXCEPT ![t].SuccessCount = AtomicLoadInt64(ErrorCount)]
  /\ pc' = [pc EXCEPT ![t] = "agg_loadE"]
  /\ UNCHANGED <<rpcVars, prog, op, item, contents, ret, report, calls, hist, unpaired, dirty>>

\* SuccessCount: b.GetSuccessCount()
AggLoadSuccess(t) ==
  /\ pc[t] = "agg_loadS"
  /\ aggr' = [aggr EXCEPT ![t].SuccessCount = AtomicLoadInt64(SuccessCount)]
  /\ pc' = [pc EXCEPT ![t] = "agg_loadE"]
  /\ UNCHANGED <<rpcVars, prog, op, item, contents, ret, report, calls, hist, unpaired, dirty>>

\* GetAggregation that goes from the counter reads to the reset, without the drain.
AggLoadErrorNoDrain(t) ==
  /\ pc[t] = "agg_loadE"
  /\ aggr' = [aggr EXCEPT ![t].ErrorCount = AtomicLoadInt64(ErrorCount)]
  /\ pc' = [pc EXCEPT ![t] = "reset_S"]
  /\ UNCHANGED <<rpcVars, prog, op, item, contents, ret, report, calls, hist, unpaired, dirty>>

\* ErrorCount: b.GetErrorCount(); the call of b.FlushErrorBuffer() follows
AggLoadError(t) ==
  /\ pc[t] = "agg_loadE"
  /\ aggr' = [aggr EXCEPT ![t].ErrorCount = AtomicLoadInt64(ErrorCount)]
  /\ pc' = [pc EXCEPT ![t] = "flush_lock"]
  /\ UNCHANGED <<rpcVars, prog, op, item, contents, ret, report, calls, hist, unpaired, dirty>>

\* ---------------------------------------------------------------- specifications
\* One step of thread t inside a method it has already entered.
Continue(t) ==
  \/ Lock(t)
  \/ AddErrorAppend(t)
  \/ AddErrorUnlock(t)
  \/ FlushCopy(t)
  \/ FlushClear(t)
  \/ FlushUnlock(t)
  \/ AggLoadSuccess(t)
  \/ AggLoadError(t)
  \/ pc[t] = "reset_S" /\ ResetSuccess(t)
  \/ ResetError(t)

Next ==
  \E t \in Threads :
    \/ IncrementSuccess(t)
    \/ IncrementError(t)
    \/ GetSuccessCount(t)
    \/ GetErrorCount(t)
    \/ ResetSuccess(t)
    \/ ResetError(t)
    \/ \E c \in Causes : CallAddError(t, c)
    \/ Lock(t)
    \/ AddErrorAppend(t)
    \/ AddErrorUnlock(t)
    \/ CallFlushErrorBuffer(t)
    \/ FlushCopy(t)
    \/ FlushClear(t)
    \/ FlushUnlock(t)
    \/ CallGetAggregation(t)
    \/ AggLoadSuccess(t)
    \/ AggLoadError(t)

Spec == Init /\ [][Next]_vars

\* The Go scheduler runs every runnable goroutine, and sync.Mutex hands the
\* lock to a waiter that keeps being passed over (starvation mode).
\* The behaviours of FairSpec are those of Spec with at most MaxLiveCalls calls.
MayCall == calls < MaxLiveCalls

NextFair ==
  \E t \in Threads :
    \/ Continue(t)
    \/ MayCall /\ IncrementSuccess(t)
    \/ MayCall /\ IncrementError(t)
    \/ MayCall /\ GetSuccessCount(t)
    \/ MayCall /\ GetErrorCount(t)
    \/ MayCall /\ pc[t] = "idle" /\ ResetSuccess(t)
    \/ MayCall /\ \E c \in Causes : CallAddError(t, c)
    \/ MayCall /\ CallFlushErrorBuffer(t)
    \/ MayCall /\ CallGetAggregation(t)

FairSpec ==
  /\ Init
  /\ [][NextFair]_vars
  /\ \A t \in Threads : WF_vars(Continue(t)) /\ SF_vars(Lock(t))

\* The intended use: one consumer (thread 1) calls GetAggregation, every thread
\* may produce, read, drain and reset.
NextSingleConsumer ==
  \E t \in Threads :
    \/ IncrementSuccess(t)
    \/ IncrementError(t)
    \/ GetSuccessCount(t)
    \/ GetErrorCount(t)
    \/ ResetSuccess(t)
    \/ ResetError(t)
    \/ \E c \in Causes : CallAddError(t, c)
    \/ Lock(t)
    \/ AddErrorAppend(t)
    \/ AddErrorUnlock(t)
    \/ CallFlushErrorBuffer(t)
    \/ FlushCopy(t)
    \/ FlushClear(t)
    \/ FlushUnlock(t)
    \/ t = 1 /\ CallGetAggregation(t)
    \/ AggLoadSuccess(t)
    \/ AggLoadError(t)

SpecSingleConsumer == Init /\ [][NextSingleConsumer]_vars

\* FormatOutput and GetAggregation on their own: one GetAggregation call, by
\* any thread, on a Buffer that sequential IncrementSuccess, IncrementError and
\* AddError calls have filled.
FmtCounts == {0, 1, 2, 10, 12}

RECURSIVE SeqsUpTo(_)
SeqsUpTo(n) ==
  IF n = 0 THEN {<<>>}
  ELSE LET shorter == SeqsUpTo(n - 1)
       IN  shorter \cup {Append(q, c) : q \in {r \in shorter : Len(r) = n - 1}, c \in Causes}

InitFormat ==
  /\ mu = 0
  /\ ErrBuffer \in SeqsUpTo(MaxFmtLen)
  /\ SuccessCount \in FmtCounts
  /\ ErrorCount \in FmtCounts
  /\ pc = [t \in Threads |-> "idle"]
  /\ op = [t \in Threads |-> "none"]
  /\ item = [t \in Threads |-> Nil]
  /\ contents = [t \in Threads |-> <<>>]
  /\ aggr = [t \in Threads |-> ZeroAggregation]
  /\ ret = [t \in Threads |-> 0]
  /\ report = [t \in Threads |-> ""]
  /\ calls = MaxCalls - 1
  /\ nSucc = SuccessCount
  /\ nErr = ErrorCount
  /\ resets = "none"
  /\ log = ErrBuffer
  /\ drained = <<>>
  /\ repS = 0
  /\ repE = 0
  /\ unpaired = TRUE
  /\ dirty = [t \in Threads |-> FALSE]
  /\ ServiceIdle

NextFormat ==
  \E t \in Threads :
    \/ CallGetAggregation(t)
    \/ AggLoadSuccess(t)
    \/ AggLoadError(t)
    \/ Lock(t)
    \/ FlushCopy(t)
    \/ FlushClear(t)
    \/ FlushUnlock(t)
    \/ pc[t] = "reset_S" /\ ResetSuccess(t)
    \/ ResetError(t)

SpecFormat == InitFormat /\ [][NextFormat]_vars

\* ---------------------------------------------------------------- properties
Idle(t) == pc[t] = "idle"
Quiescent == \A t \in Threads : Idle(t)

\* C1: with no reset so far, a GetSuccessCount call returns exactly the number
\* of IncrementSuccess calls that have returned, whatever threads issued them
\* and in whatever interleaving: no increment is lost or counted twice.
C1_SuccessCountExact ==
  [][\A t \in Threads :
       (GetSuccessCount(t) /\ resets = "none") => ret'[t] = nSucc]_vars

\* Both threads have incremented, and the read that follows returned 2.
C1_Witness ==
  \E t, u \in Threads :
    /\ t # u
    /\ Idle(t) /\ op[t] = "GetSuccessCount" /\ ret[t] = 2
    /\ Idle(u) /\ op[u] = "IncrementSuccess"
    /\ nSucc = 2 /\ resets = "none"

\* C2: with no reset so far, a GetErrorCount call returns exactly the number
\* of IncrementError calls that have returned, whatever AddError or
\* IncrementSuccess calls ran alongside.
C2_ErrorCountExact ==
  [][\A t \in Threads :
       (GetErrorCount(t) /\ resets = "none") => ret'[t] = nErr]_vars

\* Both threads have incremented the error counter, and the read returned 2.
C2_Witness ==
  \E t, u \in Threads :
    /\ t # u
    /\ Idle(t) /\ op[t] = "GetErrorCount" /\ ret[t] = 2
    /\ Idle(u) /\ op[u] = "IncrementError"
    /\ nErr = 2 /\ resets = "none"

\* C3: a drain returns, in insertion order, exactly the causes appended and
\* not returned by an earlier drain; hence a drain on an empty Buffer returns
\* c1..ck after AddError(c1)..AddError(ck), and a second drain with no
\* AddError in between returns the empty sequence.
C3_DrainReturnsAppended ==
  [][\A t \in Threads : FlushUnlock(t) => log = drained \o contents[t]]_vars

\* AddError(x), AddError(y), then FlushErrorBuffer returned [x, y].
C3_Witness ==
  \E t \in Threads :
    /\ Idle(t) /\ op[t] = "FlushErrorBuffer"
    /\ contents[t] = <<Err("x"), Err("y")>>
    /\ ErrBuffer = <<>>

\* C4: under every interleaving of AddError and FlushErrorBuffer calls, the
\* buffer does not change between a drain's copy and its clear, and every
\* appended cause is in exactly one place: what the completed drains returned,
\* the copy a drain is about to return, or the buffer.
C4_DrainSnapshot ==
  /\ \A t \in Threads : pc[t] = "flush_clear" => contents[t] = ErrBuffer
  /\ \A t \in Threads : pc[t] = "flush_unlock" => log = (drained \o contents[t]) \o ErrBuffer
  /\ (\A t \in Threads : pc[t] # "flush_unlock") => log = drained \o ErrBuffer

\* A drain holds a non-empty copy, not yet cleared, while a producer waits at
\* the mutex with its cause.
C4_Witness ==
  \E t, u \in Threads :
    /\ pc[t] = "flush_clear" /\ contents[t] # <<>>
    /\ pc[u] = "add_lock"

\* C5: (the claim as stated) when no call is running and resetCounts was only
\* ever run by GetAggregation, every completed increment is in exactly one
\* report or still in its counter, and every appended cause is in exactly one
\* drain or still in the buffer.
C5_NothingLost ==
  (Quiescent /\ resets # "plain") =>
    /\ nSucc = repS + SuccessCount
    /\ nErr = repE + ErrorCount
    /\ log = drained \o ErrBuffer

\* C6: (the claim as stated) whenever a thread has returned from resetCounts or
\* GetAggregation and has not called again, both counters read 0.

\* C6: (the claim as stated) whenever a thread has returned from resetCounts or
\* GetAggregation and has not called again, both counters read 0.
C6_ZeroAfterReset ==
  \A t \in Threads :
    (Idle(t) /\ op[t] \in {"resetCounts", "GetAggregation"}) =>
      (SuccessCount = 0 /\ ErrorCount = 0)

\* C6 (amended): after a thread has returned from resetCounts or
\* GetAggregation, both counters read 0 as long as no IncrementSuccess or
\* IncrementError has taken effect since that call began to reset.
C6_ZeroAfterResetUnlessIncremented ==
  \A t \in Threads :
    (Idle(t) /\ op[t] \in {"resetCounts", "GetAggregation"} /\ ~dirty[t]) =>
      (SuccessCount = 0 /\ ErrorCount = 0)

\* Both counters had been raised, a reset has returned, nothing was incremented since.
C6_Witness ==
  \E t \in Threads :
    /\ Idle(t) /\ op[t] \in {"resetCounts", "GetAggregation"} /\ ~dirty[t]
    /\ nSucc > 0 /\ nErr > 0

\* C7: (the claim as stated) while a reset is between its two statements no
\* thread can find SuccessCount already 0 and ErrorCount still non-zero.
C7_ResetIsOneStep ==
  \A t \in Threads : pc[t] = "reset_E" => ~(SuccessCount = 0 /\ ErrorCount # 0)

\* C7 (amended): resetCounts zeroes the counters by two separate atomic
\* stores, SuccessCount first and ErrorCount second: the first store leaves
\* ErrorCount as it is, the second leaves SuccessCount as it is (increments
\* that landed in between included), and between the two SuccessCount is 0
\* unless an increment has taken effect.
C7_ResetIsTwoStores ==
  /\ [](\A t \in Threads : (pc[t] = "reset_E" /\ ~dirty[t]) => SuccessCount = 0)
  /\ [][\A t \in Threads :
          /\ ResetSuccess(t) =>
               (SuccessCount' = 0 /\ ErrorCount' = ErrorCount /\ pc'[t] = "reset_E")
          /\ ResetError(t) =>
               (ErrorCount' = 0 /\ SuccessCount' = SuccessCount /\ pc'[t] = "idle")]_vars

\* A resetCounts call is between its stores, SuccessCount is 0, ErrorCount is
\* not, and another thread has read the non-zero ErrorCount.
C7_Witness ==
  \E t, u \in Threads :
    /\ pc[t] = "reset_E" /\ op[t] = "resetCounts"
    /\ SuccessCount = 0 /\ ErrorCount # 0
    /\ Idle(u) /\ op[u] = "GetErrorCount" /\ ret[u] = ErrorCount

\* The lines of a report, each without its newline: header, the two counts
\* and, for a non-empty cs, the details header and one numbered line per cause.
ExpectedLines(s, e, cs) ==
  <<"Aggregation Summary:", "  Successes: " \o Itoa(s), "  Errors: " \o Itoa(e)>>
  \o (IF cs # <<>>
        THEN <<"  Error Details:">>
             \o [i \in 1..Len(cs) |-> ("    " \o Itoa(i)) \o (": " \o FormatV(cs[i]))]
        ELSE <<>>)

RECURSIVE JoinLines(_)
JoinLines(lines) ==
  IF lines = <<>> THEN "" ELSE (Head(lines) \o "\n") \o JoinLines(Tail(lines))

ExampleReport ==
  "Aggregation Summary:\n  Successes: 2\n  Errors: 1\n  Error Details:\n    1: x\n    2: y\n"

\* C8: the report GetAggregation returns on a Buffer holding success count s,
\* error count e and causes c1..ck is the header line, "  Successes: s",
\* "  Errors: e" and, iff k > 0, "  Error Details:" and the k lines "    i: ci"
\* for i = 1..k in insertion order; for 2, 1 and [x, y] it is the six-line
\* report of the example.
C8_ReportFormat ==
  \A t \in Threads :
    (Idle(t) /\ op[t] = "GetAggregation") =>
      /\ aggr[t] = [SuccessCount |-> nSucc, ErrorCount |-> nErr, Errors |-> log]
      /\ report[t] = JoinLines(ExpectedLines(nSucc, nErr, log))
      /\ Len(ExpectedLines(nSucc, nErr, log)) = IF log = <<>> THEN 3 ELSE 4 + Len(log)
      /\ (nSucc = 2 /\ nErr = 1 /\ log = <<Err("x"), Err("y")>>) => report[t] = ExampleReport

\* GetAggregation has returned the six-line report of the example.
C8_Witness ==
  \E t \in Threads :
    /\ Idle(t) /\ op[t] = "GetAggregation"
    /\ nSucc = 2 /\ nErr = 1 /\ log = <<Err("x"), Err("y")>>
    /\ report[t] = ExampleReport

\* The statements of GetAggregation in program order, each a step of its own.
AggSteps ==
  {<<"idle", "agg_loadS">>, <<"agg_loadS", "agg_loadE">>, <<"agg_loadE", "flush_lock">>,
   <<"flush_lock", "flush_copy">>, <<"flush_copy", "flush_clear">>,
   <<"flush_clear", "flush_unlock">>, <<"flush_unlock", "reset_S">>,
   <<"reset_S", "reset_E">>, <<"reset_E", "idle">>}

\* C9: GetAggregation reads SuccessCount, then ErrorCount, then drains the
\* buffer, then resets the counters, each as a separate step: it moves only
\* along its statements in that order, a step before the reset leaves both
\* counters as they are, and the two reads leave the buffer as it is.  (That a
\* report's Errors can then differ from its number of details, with every
\* producer pairing AddError with IncrementError, is the witness.)
C9_AggregationSteps ==
  [][\A t \in Threads :
       (op'[t] = "GetAggregation" /\ pc'[t] # pc[t]) =>
         /\ <<pc[t], pc'[t]>> \in AggSteps
         /\ pc[t] \in {"idle", "agg_loadS", "agg_loadE"} => ErrBuffer' = ErrBuffer
         /\ pc[t] \notin {"reset_S", "reset_E"} =>
              (SuccessCount' = SuccessCount /\ ErrorCount' = ErrorCount)
         /\ pc[t] = "agg_loadS" => aggr'[t].SuccessCount = SuccessCount
         /\ pc[t] = "agg_loadE" => aggr'[t].ErrorCount = ErrorCount
         /\ pc[t] = "flush_unlock" => aggr'[t].Errors = contents[t]]_vars

\* Every producer has paired each AddError with an IncrementError and all calls
\* have returned, yet a report's Errors differs from its number of details.
C9_Witness ==
  \E t \in Threads :
    /\ Quiescent /\ ~unpaired
    /\ \A u \in Threads : op[u] # "AddError"
    /\ op[t] = "GetAggregation"
    /\ aggr[t].ErrorCount # Len(aggr[t].Errors)
    /\ nErr = Len(log)

\* C10: every call that was started returns, and the mutex is held only by a
\* thread inside the critical section of AddError or FlushErrorBuffer, so a
\* thread waiting for it is never waiting for a thread that has returned.
C10_EveryCallReturns ==
  /\ \A t \in Threads : (pc[t] # "idle") ~> (pc[t] = "idle")
  /\ [](mu # 0 => pc[mu] \in {"add_append", "add_unlock", "flush_copy",
                              "flush_clear", "flush_unlock"})

\* A thread waits at the mutex while another thread holds it.
C10_Witness ==
  \E t, u \in Threads :
    /\ t # u
    /\ pc[t] \in {"add_lock", "flush_lock"}
    /\ mu = u

\* C11: AddError accepts every cause, nil included, and each call appends
\* exactly one entry, the cause as given, at the end of the buffer: the append
\* step lengthens the buffer by one, no other step of the call changes it, and
\* the call is never refused.
C11_AddErrorAppendsOne ==
  /\ [](\A t \in Threads : \A c \in Causes :
          (Idle(t) /\ calls < MaxCalls) => ENABLED CallAddError(t, c))
  /\ [][\A t \in Threads :
          /\ AddErrorAppend(t) =>
               /\ ErrBuffer' = ErrBuffer \o <<item[t]>>
               /\ Len(ErrBuffer') = Len(ErrBuffer) + 1
               /\ pc'[t] = "add_unlock"
          /\ (op[t] = "AddError" /\ (Lock(t) \/ AddErrorUnlock(t))) => ErrBuffer' = ErrBuffer
          /\ (\E c \in Causes : CallAddError(t, c)) => ErrBuffer' = ErrBuffer
          /\ (op'[t] = "AddError" /\ pc'[t] # pc[t]) =>
               <<pc[t], pc'[t]>> \in {<<"idle", "add_lock">>, <<"add_lock", "add_append">>,
                                      <<"add_append", "add_unlock">>, <<"add_unlock", "idle">>}]_vars

\* AddError(nil) and AddError(x) have both returned and both are in the buffer.
C11_Witness ==
  /\ ErrBuffer = <<Nil, Err("x")>>
  /\ \A t \in Threads : Idle(t) /\ op[t] = "AddError"

\* The steps of each method, for the frame conditions.
AddErrorStep(t) ==
  \/ \E c \in Causes : CallAddError(t, c)
  \/ op[t] = "AddError" /\ Lock(t)
  \/ AddErrorAppend(t)
  \/ AddErrorUnlock(t)

FlushStep(t) ==
  \/ CallFlushErrorBuffer(t)
  \/ op[t] = "FlushErrorBuffer" /\ Lock(t)
  \/ FlushCopy(t)
  \/ FlushClear(t)
  \/ FlushUnlock(t)

\* C12: AddError and FlushErrorBuffer leave both counters unchanged;
\* IncrementSuccess changes SuccessCount only; IncrementError changes
\* ErrorCount only; resetCounts leaves the buffer and the mutex unchanged;
\* GetSuccessCount and GetErrorCount change nothing.
C12_Frames ==
  [][\A t \in Threads :
       /\ (AddErrorStep(t) \/ FlushStep(t)) =>
            (SuccessCount' = SuccessCount /\ ErrorCount' = ErrorCount)
       /\ IncrementSuccess(t) =>
            (ErrorCount' = ErrorCount /\ ErrBuffer' = ErrBuffer /\ mu' = mu)
       /\ IncrementError(t) =>
            (SuccessCount' = SuccessCount /\ ErrBuffer' = ErrBuffer /\ mu' = mu)
       /\ (ResetSuccess(t) \/ ResetError(t)) => (ErrBuffer' = ErrBuffer /\ mu' = mu)
       /\ (GetSuccessCount(t) \/ GetErrorCount(t)) => prog' = prog]_vars

\* All three pieces of state are non-trivial at once.
C12_Witness ==
  /\ ErrBuffer # <<>> /\ SuccessCount = 1 /\ ErrorCount = 1
  /\ Quiescent

\* C13: a step that is not a statement of resetCounts leaves each counter as
\* it is or raises it by exactly one, and both counters are non-negative in
\* every reachable state.
C13_CountersMonotone ==
  /\ [](SuccessCount >= 0 /\ ErrorCount >= 0)
  /\ [][(\A t \in Threads : ~ResetSuccess(t) /\ ~ResetError(t)) =>
          /\ SuccessCount' \in {SuccessCount, SuccessCount + 1}
          /\ ErrorCount' \in {ErrorCount, ErrorCount + 1}]_vars

\* After a reset a counter has been raised again.
C13_Witness ==
  /\ resets # "none"
  /\ Quiescent
  /\ SuccessCount + ErrorCount = 2

\* C14: every step leaves the buffer as it is, extends it by one cause at its
\* end, or empties it.
C14_AppendOrDrain ==
  [][\/ ErrBuffer' = ErrBuffer
     \/ \E c \in Causes : ErrBuffer' = Append(ErrBuffer, c)
     \/ ErrBuffer' = <<>>]_vars

\* A buffer of two causes has just been emptied by a drain.
C14_Witness ==
  \E t \in Threads :
    /\ pc[t] = "flush_unlock"
    /\ Len(contents[t]) = 2
    /\ ErrBuffer = <<>>

InCriticalSection(t) ==
  pc[t] \in {"add_append", "add_unlock", "flush_copy", "flush_clear", "flush_unlock"}

\* C15: at most one thread is inside the append or drain critical section,
\* and the counter operations never wait for the mutex: whoever holds it, an
\* idle thread can take IncrementSuccess, IncrementError, GetSuccessCount,
\* GetErrorCount and resetCounts, and a thread inside resetCounts or at the
\* counter reads of GetAggregation can take its next step.
C15_TwoDomains ==
  /\ Cardinality({t \in Threads : InCriticalSection(t)}) <= 1
  /\ \A t \in Threads :
       /\ (Idle(t) /\ calls < MaxCalls) =>
            /\ ENABLED IncrementSuccess(t)
            /\ ENABLED IncrementError(t)
            /\ ENABLED GetSuccessCount(t)
            /\ ENABLED GetErrorCount(t)
            /\ ENABLED ResetSuccess(t)
       /\ pc[t] = "reset_S" => ENABLED ResetSuccess(t)
       /\ pc[t] = "reset_E" => ENABLED ResetError(t)
       /\ pc[t] = "agg_loadS" => ENABLED AggLoadSuccess(t)
       /\ pc[t] = "agg_loadE" => ENABLED AggLoadError(t)

\* One thread holds the mutex, another has incremented and is inside resetCounts.
C15_Witness ==
  \E t, u \in Threads :
    /\ mu = u /\ InCriticalSection(u)
    /\ pc[t] = "reset_E" /\ op[t] = "resetCounts"
    /\ nSucc + nErr > 0

\* C16: with thread 1 the only caller of GetAggregation, the counts are never
\* over-reported: the Successes of the reports returned so far plus the
\* current SuccessCount is at most the number of IncrementSuccess calls, and
\* likewise for Errors and IncrementError.
C16_NeverOverReported ==
  /\ repS + SuccessCount <= nSucc
  /\ repE + ErrorCount <= nErr

\* A report with Successes: 1 has been returned, and a second increment was
\* dropped by the reset.
C16_Witness ==
  /\ Quiescent
  /\ op[1] = "GetAggregation"
  /\ repS = 1 /\ nSucc = 2 /\ SuccessCount = 0

\* ======================================================================
\* Package core (validator.go): ComputeValidatorPerformance, IndividualVotes
\* ======================================================================
MaxReqLen == 2          \* longest req.PublicKeys and longest req.Indices
PubkeyLength == 48      \* bytes of a BLS public key (bytesutil.ToBytes48)

\* The validators of the beacon state, by validator index.
Validators == {0, 1}
\* ^uint64(0): the validator index IndividualVotes gives a key it does not
\* find; also what a failed ValidatorIndexByPubkey lookup yields here.
NoIndex == 0 - 1

\* val.PublicKey() of validator i: 48 bytes.
PublicKey(i) == [j \in 1..PubkeyLength |-> IF j = 1 THEN i + 1 ELSE 0]

\* bytesutil.ToBytes48: the first 48 bytes, zero-padded.
ToBytes48(x) == [j \in 1..PubkeyLength |-> IF j <= Len(x) THEN x[j] ELSE 0]

\* state.ValidatorIndexByPubkey: the index and ok, NoIndex standing for !ok.
ValidatorIndexByPubkey(key) ==
  IF \E i \in Validators : PublicKey(i) = key
  THEN CHOOSE i \in Validators : PublicKey(i) = key
  ELSE NoIndex

\* Public keys a request may carry: the empty key, each validator's key, the
\* key of validator 0 with a byte too many, a short key of nobody.
RequestKeys ==
  {<<>>, Append(PublicKey(0), 7), <<9>>} \cup {PublicKey(i) : i \in Validators}
\* Validator indices a request may carry: every validator's and one beyond.
RequestIndices == Validators \cup {Cardinality(Validators)}

RECURSIVE ListsUpTo(_, _)
ListsUpTo(S, n) ==
  IF n = 0 THEN {<<>>}
  ELSE LET shorter == ListsUpTo(S, n - 1)
       IN shorter \cup {Append(l, x) : l \in {k \in shorter : Len(k) = n - 1}, x \in S}

\* sort.Slice with the ascending less function.
RECURSIVE Insert(_, _)
Insert(x, sorted) ==
  IF sorted = <<>> THEN <<x>>
  ELSE IF x <= Head(sorted) THEN <<x>> \o sorted
  ELSE <<Head(sorted)>> \o Insert(x, Tail(sorted))

RECURSIVE SortSlice(_)
SortSlice(l) == IF l = <<>> THEN <<>> ELSE Insert(Head(l), SortSlice(Tail(l)))

\* An RpcError with its Reason, and the nil *RpcError.
RpcError(rpc, reason) == [rpc |-> rpc, err |-> reason]

\* ---- ComputeValidatorPerformance
\* The loop over req.PublicKeys, one public key at a time.
PerfPubkeyStep(acc, pubKey) ==
  LET idx == ValidatorIndexByPubkey(ToBytes48(pubKey))
  IN IF Len(pubKey) = 0 THEN acc
     ELSE IF idx = NoIndex
       THEN [acc EXCEPT !.missingValidators = Append(@, pubKey)]
     ELSE IF idx \notin acc.filtered
       THEN [acc EXCEPT !.validatorIndices = Append(@, idx),
                        !.filtered = @ \cup {idx}]
     ELSE acc

RECURSIVE PerfPubkeys(_, _)
PerfPubkeys(acc, keys) ==
  IF keys = <<>> THEN acc
  ELSE PerfPubkeys(PerfPubkeyStep(acc, Head(keys)), Tail(keys))

\* The loop over req.Indices with the check of filtered left out.
PerfIndexStepUnfiltered(acc, idx) ==
  [acc EXCEPT !.validatorIndices = Append(@, idx), !.filtered = @ \cup {idx}]

\* The loop over req.Indices, one index at a time.
PerfIndexStep(acc, idx) ==
  IF idx \notin acc.filtered
  THEN [acc EXCEPT !.validatorIndices = Append(@, idx), !.filtered = @ \cup {idx}]
  ELSE acc

RECURSIVE PerfIndices(_, _)
PerfIndices(acc, indices) ==
  IF indices = <<>> THEN acc
  ELSE PerfIndices(PerfIndexStep(acc, Head(indices)), Tail(indices))

\* The loop over the sorted validatorIndices, one index at a time.  A value of a
\* validator's summary is modelled by the validator's index.
PerfSummaryStep(s, out, idx) ==
  IF out.err # "nil" THEN out
  ELSE IF idx \notin Validators
    THEN RpcError("ComputeValidatorPerformance", "Internal")
  ELSE IF idx >= s.summaryLen \/ idx \notin s.active
    THEN [out EXCEPT !.MissingValidators = Append(@, PublicKey(idx))]
  ELSE [out EXCEPT
          !.PublicKeys = Append(@, PublicKey(idx)),
          !.CurrentEffectiveBalances = Append(@, idx),
          !.BalancesBeforeEpochTransition = Append(@, idx),
          !.BalancesAfterEpochTransition = Append(@, idx),
          !.CorrectlyVotedTarget = Append(@, idx),
          !.CorrectlyVotedHead = Append(@, idx),
          !.CorrectlyVotedSource = Append(@, idx),
          !.InactivityScores = IF s.version = "Phase0" THEN @ ELSE Append(@, idx)]

RECURSIVE PerfSummaries(_, _, _)
PerfSummaries(s, out, indices) ==
  IF indices = <<>> THEN out
  ELSE PerfSummaries(s, PerfSummaryStep(s, out, Head(indices)), Tail(indices))

\* What ComputeValidatorPerformance returns for request r on state s.
PerformanceResponse(r, s) ==
  IF s.fault = "syncing" THEN RpcError("ComputeValidatorPerformance", "Unavailable")
  ELSE IF s.fault = "fetch" THEN RpcError("ComputeValidatorPerformance", "Internal")
  ELSE
    LET byKey == PerfPubkeys([validatorIndices |-> <<>>, missingValidators |-> <<>>,
                              filtered |-> {}], r.PublicKeys)
        all == PerfIndices(byKey, r.Indices)
        empty == [rpc |-> "ComputeValidatorPerformance", err |-> "nil",
                  PublicKeys |-> <<>>,
                  CorrectlyVotedSource |-> <<>>,
                  CorrectlyVotedTarget |-> <<>>,
                  CorrectlyVotedHead |-> <<>>,
                  CurrentEffectiveBalances |-> <<>>,
                  BalancesBeforeEpochTransition |-> <<>>,
                  BalancesAfterEpochTransition |-> <<>>,
                  MissingValidators |-> all.missingValidators,
                  InactivityScores |-> <<>>]
    IN PerfSummaries(s, empty, SortSlice(all.validatorIndices))

\* ---- IndividualVotes
\* The loop over req.PublicKeys, one public key at a time.
VotePubkeyStep(acc, pubKey) ==
  LET index == ValidatorIndexByPubkey(ToBytes48(pubKey))
  IN IF index = NoIndex
     THEN [acc EXCEPT !.votes = Append(@, [Epoch |-> 0, PublicKey |-> pubKey,
                                           ValidatorIndex |-> NoIndex,
                                           Summary |-> NoIndex])]
     ELSE [acc EXCEPT !.filtered = @ \cup {index},
                      !.filteredIndices = Append(@, index)]

RECURSIVE VotePubkeys(_, _)
VotePubkeys(acc, keys) ==
  IF keys = <<>> THEN acc
  ELSE VotePubkeys(VotePubkeyStep(acc, Head(keys)), Tail(keys))

\* The loop over req.Indices, one index at a time.
VoteIndexStep(acc, index) ==
  IF index \notin acc.filtered
  THEN [acc EXCEPT !.filteredIndices = Append(@, index)]
  ELSE acc

RECURSIVE VoteIndices(_, _)
VoteIndices(acc, indices) ==
  IF indices = <<>> THEN acc
  ELSE VoteIndices(VoteIndexStep(acc, Head(indices)), Tail(indices))

\* The loop over the sorted filteredIndices, one index at a time.  The fields
\* copied from v[index] are modelled by the one field Summary.
VoteStep(r, s, out, index) ==
  IF out.err # "nil" THEN out
  ELSE IF index >= s.summaryLen
    THEN [out EXCEPT !.IndividualVotes =
            Append(@, [Epoch |-> 0, PublicKey |-> <<>>, ValidatorIndex |-> index,
                       Summary |-> NoIndex])]
  ELSE IF index \notin Validators
    THEN RpcError("IndividualVotes", "Internal")
  ELSE [out EXCEPT !.IndividualVotes =
          Append(@, [Epoch |-> r.Epoch, PublicKey |-> PublicKey(index),
                     ValidatorIndex |-> index, Summary |-> index])]

RECURSIVE Votes(_, _, _, _)
Votes(r, s, out, indices) ==
  IF indices = <<>> THEN out
  ELSE Votes(r, s, VoteStep(r, s, out, Head(indices)), Tail(indices))

\* What IndividualVotes returns for request r on state s.
IndividualVotesRespond(r, s) ==
  IF r.Epoch > s.currentEpoch THEN RpcError("IndividualVotes", "BadRequest")
  ELSE IF s.fault = "fetch" THEN RpcError("IndividualVotes", "Internal")
  ELSE
    LET byKey == VotePubkeys([votes |-> <<>>, filtered |-> {},
                              filteredIndices |-> <<>>], r.PublicKeys)
        all == VoteIndices(byKey, r.Indices)
    IN Votes(r, s, [rpc |-> "IndividualVotes", err |-> "nil",
                    IndividualVotes |-> all.votes],
             SortSlice(all.filteredIndices))

\* ---- the two calls
Requests ==
  [rpc : {"request"},
   PublicKeys : ListsUpTo(RequestKeys, MaxReqLen),
   Indices : ListsUpTo(RequestIndices, MaxReqLen),
   Epoch : {0, 1}]

\* The state a call works on: its version, how many validators its precompute
\* list has, which validators are active, the current epoch, and whether the
\* node is syncing or a fetcher, replay or precompute step fails.
BeaconStates ==
  [rpc : {"state"},
   version : {"Phase0", "Altair"},
   summaryLen : {Cardinality(Validators) - 1, Cardinality(Validators)},
   active : {Validators} \cup {Validators \ {i} : i \in Validators},
   currentEpoch : {0},
   fault : {"none", "syncing", "fetch"}]

ComputeValidatorPerformance ==
  /\ resp = NoCall
  /\ resp' = PerformanceResponse(req, st)
  /\ UNCHANGED <<bufVars, req, st, attVars, subVars>>

IndividualVotes ==
  /\ resp = NoCall
  /\ resp' = IndividualVotesRespond(req, st)
  /\ UNCHANGED <<bufVars, req, st, attVars, subVars>>

InitQuery ==
  /\ Fresh
  /\ req \in Requests
  /\ st \in BeaconStates
  /\ resp = NoCall
  /\ attCache = NoEntry
  /\ attLock = Unlocked
  /\ chain = NoCall
  /\ att = <<>>
  /\ sub = NoCall
  /\ gor = <<>>
  /\ pool = <<>>
  /\ feed = <<>>

NextQuery ==
  \/ ComputeValidatorPerformance
  \/ IndividualVotes

SpecQuery == InitQuery /\ [][NextQuery]_vars

\* How often x occurs in the list l.
Occurrences(l, x) == Cardinality({k \in DOMAIN l : l[k] = x})

\* The validator indices a request resolves to: those of the public keys found
\* in the state and those given as indices.
Resolved(r) ==
  LET byKey == {ValidatorIndexByPubkey(ToBytes48(r.PublicKeys[k])) :
                  k \in {j \in DOMAIN r.PublicKeys : Len(r.PublicKeys[j]) > 0}}
  IN (byKey \ {NoIndex}) \cup {r.Indices[k] : k \in DOMAIN r.Indices}

\* C19: the votes IndividualVotes returns hold at most one entry for each
\* validator index of the state, whatever public keys and indices the request
\* lists.
C19_NoDuplicateVotes ==
  (resp.rpc = "IndividualVotes" /\ resp.err = "nil") =>
    \A i \in Validators :
      Cardinality({k \in DOMAIN resp.IndividualVotes :
                     resp.IndividualVotes[k].ValidatorIndex = i}) <= 1

\* C20: a performance response lists validators in strictly ascending index
\* order, every resolved validator has its public key exactly once in
\* PublicKeys and MissingValidators taken together, and the per-validator
\* arrays are as long as PublicKeys.
C20_PerformanceOncePerValidator ==
  (resp.rpc = "ComputeValidatorPerformance" /\ resp.err = "nil") =>
    /\ \A k \in 1..(Len(resp.PublicKeys) - 1) :
         ValidatorIndexByPubkey(resp.PublicKeys[k])
           < ValidatorIndexByPubkey(resp.PublicKeys[k + 1])
    /\ \A k \in DOMAIN resp.PublicKeys :
         ValidatorIndexByPubkey(resp.PublicKeys[k]) \in Resolved(req)
    /\ \A i \in Resolved(req) :
         Occurrences(resp.PublicKeys, PublicKey(i))
           + Occurrences(resp.MissingValidators, PublicKey(i)) = 1
    /\ \A l \in {resp.CurrentEffectiveBalances, resp.BalancesBeforeEpochTransition,
                 resp.BalancesAfterEpochTransition, resp.CorrectlyVotedSource,
                 resp.CorrectlyVotedTarget, resp.CorrectlyVotedHead} :
         Len(l) = Len(resp.PublicKeys)

\* Validator 1 is asked for twice by key and once by index, after validator 0
\* by index, and both are reported.
C20_Witness ==
  /\ resp.rpc = "ComputeValidatorPerformance" /\ resp.err = "nil"
  /\ req.PublicKeys = <<PublicKey(1), PublicKey(1)>>
  /\ req.Indices = <<1, 0>>
  /\ resp.PublicKeys = <<PublicKey(0), PublicKey(1)>>

\* ======================================================================
\* Package core (validator.go): SubmitSignedContributionAndProof,
\* SubmitSyncMessage.  One call; every goroutine of its errgroup is a thread.
\* ======================================================================
SyncCommitteeSize == 4          \* params.BeaconConfig().SyncCommitteeSize, scaled down
SyncCommitteeSubnetCount == 2   \* params.BeaconConfig().SyncCommitteeSubnetCount, scaled down
MaxIndices == 2                 \* most indices HeadSyncCommitteeIndices returns

CommitteeIndices == 0..(SyncCommitteeSize - 1)

\* A call that has not started: which handler, and for SubmitSyncMessage what
\* HeadSyncCommitteeIndices will return.  saves counts the calls of the pool's
\* Save made so far (history).
SubmitCalls ==
  {[rpc |-> "SubmitSignedContributionAndProof", pc |-> "start",
    indices |-> <<>>, next |-> 1, err |-> "pending", saves |-> 0]}
  \cup
  {[rpc |-> "SubmitSyncMessage", pc |-> "start",
    indices |-> l, next |-> 1, err |-> "pending", saves |-> 0] :
     l \in ListsUpTo(CommitteeIndices, MaxIndices)}

\* errs.Go: one more goroutine, running its broadcast.
Go(subnet) == Append(gor, [subnet |-> subnet, state |-> "running"])

\* The call returns the *RpcError e ("nil" or a Reason).
Return(e) == [sub EXCEPT !.pc = "returned", !.err = e]

\* SubmitSignedContributionAndProof: errs.Go(Broadcast).
ContributionGo ==
  /\ sub.rpc = "SubmitSignedContributionAndProof"
  /\ sub.pc = "start"
  /\ gor' = Go(NoIndex)
  /\ sub' = [sub EXCEPT !.pc = "save"]
  /\ UNCHANGED <<bufVars, queryVars, attVars, pool, feed>>

\* SubmitSyncMessage: HeadSyncCommitteeIndices, failing or not.
HeadSyncCommitteeIndices ==
  /\ sub.rpc = "SubmitSyncMessage"
  /\ sub.pc = "start"
  /\ \E ok \in BOOLEAN :
       sub' = IF ~ok THEN Return("Internal")
              ELSE [sub EXCEPT !.pc = IF sub.indices = <<>> THEN "save" ELSE "loop"]
  /\ UNCHANGED <<bufVars, queryVars, attVars, gor, pool, feed>>

\* The turn of the loop with the index itself taken for the subnet.
SyncMessageGoOnIndex ==
  /\ sub.pc = "loop"
  /\ gor' = Go(sub.indices[sub.next])
  /\ sub' = [sub EXCEPT !.next = @ + 1,
                        !.pc = IF sub.next = Len(sub.indices) THEN "save" ELSE "loop"]
  /\ UNCHANGED <<bufVars, queryVars, attVars, pool, feed>>

\* SubmitSyncMessage: one turn of the loop, errs.Go(BroadcastSyncCommitteeMessage)
\* on the subnet of the index.
SyncMessageGo ==
  /\ sub.pc = "loop"
  /\ LET index == sub.indices[sub.next]
         subCommitteeSize == SyncCommitteeSize \div SyncCommitteeSubnetCount
         subnet == index \div subCommitteeSize
     IN gor' = Go(subnet)
  /\ sub' = [sub EXCEPT !.next = @ + 1,
                        !.pc = IF sub.next = Len(sub.indices) THEN "save" ELSE "loop"]
  /\ UNCHANGED <<bufVars, queryVars, attVars, pool, feed>>

\* SaveSyncCommitteeContribution / SaveSyncCommitteeMessage; a failure returns
\* at once.
PoolSave ==
  /\ sub.pc = "save"
  /\ \E ok \in BOOLEAN :
       IF ok
       THEN /\ pool' = Append(pool, sub.rpc)
            /\ sub' = [sub EXCEPT !.pc = "wait", !.saves = @ + 1]
       ELSE /\ pool' = pool
            /\ sub' = [Return("Internal") EXCEPT !.saves = @ + 1]
  /\ UNCHANGED <<bufVars, queryVars, attVars, gor, feed>>

\* errs.Wait() with the error of the group dropped.
ErrsWaitIgnoresError ==
  /\ sub.pc = "wait"
  /\ \A g \in DOMAIN gor : gor[g].state # "running"
  /\ sub' = IF sub.rpc = "SubmitSyncMessage" THEN Return("nil")
            ELSE [sub EXCEPT !.pc = "send"]
  /\ UNCHANGED <<bufVars, queryVars, attVars, gor, pool, feed>>

\* errs.Wait(): returns when no goroutine of the group runs, with the first
\* error if there is one.
ErrsWait ==
  /\ sub.pc = "wait"
  /\ \A g \in DOMAIN gor : gor[g].state # "running"
  /\ sub' = IF \E g \in DOMAIN gor : gor[g].state = "err" THEN Return("Internal")
            ELSE IF sub.rpc = "SubmitSyncMessage" THEN Return("nil")
            ELSE [sub EXCEPT !.pc = "send"]
  /\ UNCHANGED <<bufVars, queryVars, attVars, gor, pool, feed>>

\* OperationFeed().Send(SyncCommitteeContributionReceived), then return nil.
FeedSend ==
  /\ sub.pc = "send"
  /\ feed' = Append(feed, "SyncCommitteeContributionReceived")
  /\ sub' = Return("nil")
  /\ UNCHANGED <<bufVars, queryVars, attVars, gor, pool>>

\* A goroutine's Broadcast / BroadcastSyncCommitteeMessage returns, nil or an error.
BroadcastReturns(g) ==
  /\ gor[g].state = "running"
  /\ \E outcome \in {"ok", "err"} : gor' = [gor EXCEPT ![g].state = outcome]
  /\ UNCHANGED <<bufVars, queryVars, attVars, sub, pool, feed>>

InitSubmit ==
  /\ Fresh
  /\ req = NoCall
  /\ st = NoCall
  /\ resp = NoCall
  /\ attCache = NoEntry
  /\ attLock = Unlocked
  /\ chain = NoCall
  /\ att = <<>>
  /\ sub \in SubmitCalls
  /\ gor = <<>>
  /\ pool = <<>>
  /\ feed = <<>>

NextSubmit ==
  \/ ContributionGo
  \/ HeadSyncCommitteeIndices
  \/ SyncMessageGo
  \/ PoolSave
  \/ ErrsWait
  \/ FeedSend
  \/ \E g \in 1..MaxIndices : g \in DOMAIN gor /\ BroadcastReturns(g)

SpecSubmit == InitSubmit /\ [][NextSubmit]_vars

\* C18: when the call has returned, no broadcast goroutine it started is
\* still running.
C18_ReturnsAfterBroadcasts ==
  sub.pc = "returned" => \A g \in DOMAIN gor : gor[g].state # "running"

\* ======================================================================
\* Package core (validator.go): GetAttestationData.  Every request is a
\* thread; a step is a lock operation, or what a request does between two of
\* them or between two reads of the chain.
\* ======================================================================
NumReqs == 2            \* GetAttestationData requests in one behaviour
MaxSlot == 2            \* last slot the clock reaches
MaxHeadChanges == 1     \* times the head changes in one behaviour
SlotsPerEpoch == 2      \* params.BeaconConfig().SlotsPerEpoch, scaled down
ElectraForkEpoch == 1   \* params.BeaconConfig().ElectraForkEpoch, scaled down
RootLength == 32        \* bytes of a block root (bytesutil.ToBytes32)

AttReqs == 1..NumReqs
Slots == 1..MaxSlot
Heads == {1, 2}

\* slots.ToEpoch
ToEpoch(slot) == slot \div SlotsPerEpoch

\* bytesutil.ToBytes32: the first 32 bytes, zero-padded.
ToBytes32(x) == [j \in 1..RootLength |-> IF j <= Len(x) THEN x[j] ELSE 0]

\* The 32-byte roots of the chain with head h: its head root, the target root
\* of an epoch on it, and the justified checkpoint of its state at an epoch.
Root(kind, h, e) ==
  [j \in 1..RootLength |-> IF j = 1 THEN kind ELSE IF j = 2 THEN h
                           ELSE IF j = 3 THEN e ELSE 0]
HeadRoot(h) == Root(1, h, 0)
TargetRootForEpoch(headRoot, epoch) == Root(2, headRoot[2], epoch)
CurrentJustifiedCheckpoint(h, epoch) == [Epoch |-> epoch, Root |-> Root(3, h, epoch)]

\* A request that has not been made.  via, asked, putFailed, gets and puts are
\* history: how the answer was found, whether IsOptimistic was called, whether
\* its Put failed, and how often it called the cache's Get and Put.
IdleRequest ==
  [pc |-> "idle", Slot |-> 0, CommitteeIndex |-> 0, committeeIndex |-> 0,
   headRoot |-> <<>>, targetRoot |-> <<>>, res |-> NoCall,
   via |-> "none", asked |-> FALSE, putFailed |-> FALSE, gets |-> 0, puts |-> 0]

\* AttestationCache.Get: the entry last put, or nil.
Get == attCache
\* AttestationCache.Put of entry d, succeeding or not.
Put(d, ok) == IF ok THEN d ELSE attCache
\* res != nil && res.Slot == req.Slot
Hit(res, r) == ~res.nil /\ res.Slot = att[r].Slot

\* The AttestationData built from a cache entry for request r.
FromCache(res, r) ==
  [rpc |-> "GetAttestationData", err |-> "nil",
   Slot |-> res.Slot,
   CommitteeIndex |-> att[r].committeeIndex,
   BeaconBlockRoot |-> res.HeadRoot,
   Source |-> [Epoch |-> res.Source.Epoch, Root |-> res.Source.Root],
   Target |-> [Epoch |-> res.Target.Epoch, Root |-> res.Target.Root]]

\* The frame a of a request when it returns x, having found its data the way
\* `how` says.
Returned(a, x, how) == [a EXCEPT !.pc = "done", !.res = x, !.via = how]
Failed(a, reason) == Returned(a, RpcError("GetAttestationData", reason), "none")

RUnlock(r) == [attLock EXCEPT !.r = @ \ {r}]

\* The request arrives: the slot check, ValidateAttestationTime, committeeIndex.
AttCall(r) ==
  /\ att[r].pc = "idle"
  /\ \E slot \in Slots, valid \in BOOLEAN :
       LET a == [att[r] EXCEPT !.Slot = slot, !.CommitteeIndex = r]
       IN att' = [att EXCEPT ![r] =
            IF slot # chain.slot \/ ~valid THEN Failed(a, "BadRequest")
            ELSE [a EXCEPT !.pc = "rlock",
                           !.committeeIndex =
                              IF ToEpoch(slot) < ElectraForkEpoch
                              THEN a.CommitteeIndex ELSE 0]]
  /\ UNCHANGED <<bufVars, queryVars, subVars, attCache, attLock, chain>>

\* AttestationCache.RLock()
AttRLock(r) ==
  /\ att[r].pc = "rlock"
  /\ attLock.w = 0
  /\ attLock' = [attLock EXCEPT !.r = @ \cup {r}]
  /\ att' = [att EXCEPT ![r].pc = "check1"]
  /\ UNCHANGED <<bufVars, queryVars, subVars, attCache, chain>>

\* The first cache check, under the read lock, and RUnlock.
AttFirstCheck(r) ==
  /\ att[r].pc = "check1"
  /\ LET res == Get
         a == [att[r] EXCEPT !.gets = @ + 1]
     IN att' = [att EXCEPT ![r] =
          IF Hit(res, r) THEN Returned(a, FromCache(res, r), "first")
          ELSE [a EXCEPT !.pc = "lock"]]
  /\ attLock' = RUnlock(r)
  /\ UNCHANGED <<bufVars, queryVars, subVars, attCache, chain>>

\* AttestationCache.Lock()
AttLock(r) ==
  /\ att[r].pc = "lock"
  /\ attLock = Unlocked
  /\ attLock' = [attLock EXCEPT !.w = r]
  /\ att' = [att EXCEPT ![r].pc = "check2"]
  /\ UNCHANGED <<bufVars, queryVars, subVars, attCache, chain>>

\* The second cache check taken for a miss whatever the cache holds.
AttSecondCheckSkipped(r) ==
  /\ att[r].pc = "check2"
  /\ att' = [att EXCEPT ![r].pc = "optimistic"]
  /\ UNCHANGED <<bufVars, queryVars, subVars, attCache, attLock, chain>>

\* The second cache check, under the write lock; a hit returns (and unlocks).
AttSecondCheck(r) ==
  /\ att[r].pc = "check2"
  /\ LET res == Get
         a == [att[r] EXCEPT !.gets = @ + 1]
     IN IF Hit(res, r)
        THEN /\ att' = [att EXCEPT ![r] = Returned(a, FromCache(res, r), "second")]
             /\ attLock' = Unlocked
        ELSE /\ att' = [att EXCEPT ![r] = [a EXCEPT !.pc = "optimistic"]]
             /\ attLock' = attLock
  /\ UNCHANGED <<bufVars, queryVars, subVars, attCache, chain>>

\* IsOptimistic with its answer not looked at.
AttIsOptimisticIgnored(r) ==
  /\ att[r].pc = "optimistic"
  /\ \E ok \in BOOLEAN :
       LET a == [att[r] EXCEPT !.asked = TRUE]
       IN IF ~ok
          THEN /\ att' = [att EXCEPT ![r] = Failed(a, "Internal")]
               /\ attLock' = Unlocked
          ELSE /\ att' = [att EXCEPT ![r] = [a EXCEPT !.pc = "headroot"]]
               /\ attLock' = attLock
  /\ UNCHANGED <<bufVars, queryVars, subVars, attCache, chain>>

\* OptimisticModeFetcher.IsOptimistic, failing or not.
AttIsOptimistic(r) ==
  /\ att[r].pc = "optimistic"
  /\ \E ok \in BOOLEAN :
       LET a == [att[r] EXCEPT !.asked = TRUE]
       IN IF ~ok \/ chain.optimistic
          THEN /\ att' = [att EXCEPT ![r] =
                             Failed(a, IF ~ok THEN "Internal" ELSE "Unavailable")]
               /\ attLock' = Unlocked
          ELSE /\ att' = [att EXCEPT ![r] = [a EXCEPT !.pc = "headroot"]]
               /\ attLock' = attLock
  /\ UNCHANGED <<bufVars, queryVars, subVars, attCache, chain>>

\* HeadFetcher.HeadRoot and TargetRootForEpoch, failing or not.
AttHeadRoot(r) ==
  /\ att[r].pc = "headroot"
  /\ \E ok \in BOOLEAN :
       IF ok
       THEN LET headRoot == HeadRoot(chain.head)
                targetEpoch == ToEpoch(att[r].Slot)
                targetRoot == TargetRootForEpoch(ToBytes32(headRoot), targetEpoch)
            IN /\ att' = [att EXCEPT ![r].pc = "headstate",
                                     ![r].headRoot = headRoot,
                                     ![r].targetRoot = targetRoot]
               /\ attLock' = attLock
       ELSE /\ att' = [att EXCEPT ![r] = Failed(@, "Internal")]
            /\ attLock' = Unlocked
  /\ UNCHANGED <<bufVars, queryVars, subVars, attCache, chain>>

\* HeadFetcher.HeadState and ProcessSlotsUsingNextSlotCache, failing or not;
\* then AttestationCache.Put, failing or not, and the return of the data.
AttHeadState(r) ==
  /\ att[r].pc = "headstate"
  /\ \E ok \in BOOLEAN, putOk \in BOOLEAN :
       IF ok
       THEN LET targetEpoch == ToEpoch(att[r].Slot)
                justifiedCheckpoint == CurrentJustifiedCheckpoint(chain.head, targetEpoch)
                entry == [nil |-> FALSE,
                          Slot |-> att[r].Slot,
                          HeadRoot |-> att[r].headRoot,
                          Target |-> [Epoch |-> targetEpoch, Root |-> att[r].targetRoot],
                          Source |-> [Epoch |-> justifiedCheckpoint.Epoch,
                                      Root |-> ToBytes32(justifiedCheckpoint.Root)]]
                data == [rpc |-> "GetAttestationData", err |-> "nil",
                         Slot |-> att[r].Slot,
                         CommitteeIndex |-> att[r].committeeIndex,
                         BeaconBlockRoot |-> att[r].headRoot,
                         Source |-> [Epoch |-> justifiedCheckpoint.Epoch,
                                     Root |-> justifiedCheckpoint.Root],
                         Target |-> [Epoch |-> targetEpoch, Root |-> att[r].targetRoot]]
            IN /\ attCache' = Put(entry, putOk)
               /\ att' = [att EXCEPT ![r] =
                            Returned([@ EXCEPT !.putFailed = ~putOk, !.puts = @ + 1],
                                     data, "computed")]
       ELSE /\ attCache' = attCache
            /\ att' = [att EXCEPT ![r] = Failed(@, "Internal")]
  /\ attLock' = Unlocked
  /\ UNCHANGED <<bufVars, queryVars, subVars, chain>>

\* The chain gets a new head, imported optimistically or not.
HeadChanges ==
  /\ chain.changes < MaxHeadChanges
  /\ \E h \in Heads \ {chain.head}, o \in BOOLEAN :
       chain' = [chain EXCEPT !.head = h, !.changes = @ + 1, !.optimistic = o]
  /\ UNCHANGED <<bufVars, queryVars, subVars, attCache, attLock, att>>

\* The clock reaches the next slot.
Tick ==
  /\ chain.slot < MaxSlot
  /\ chain' = [chain EXCEPT !.slot = @ + 1]
  /\ UNCHANGED <<bufVars, queryVars, subVars, attCache, attLock, att>>

InitAtt ==
  /\ Fresh
  /\ req = NoCall
  /\ st = NoCall
  /\ resp = NoCall
  /\ attCache = NoEntry
  /\ attLock = Unlocked
  /\ \E o \in BOOLEAN :
       chain = [rpc |-> "chain", slot |-> 1, head |-> 1, changes |-> 0, optimistic |-> o]
  /\ att = [r \in AttReqs |-> IdleRequest]
  /\ sub = NoCall
  /\ gor = <<>>
  /\ pool = <<>>
  /\ feed = <<>>

NextAtt ==
  \/ \E r \in AttReqs :
       \/ AttCall(r)
       \/ AttRLock(r)
       \/ AttFirstCheck(r)
       \/ AttLock(r)
       \/ AttSecondCheck(r)
       \/ AttIsOptimistic(r)
       \/ AttHeadRoot(r)
       \/ AttHeadState(r)
  \/ HeadChanges
  \/ Tick

SpecAtt == InitAtt /\ [][NextAtt]_vars

\* What GetAttestationData derives from the head: slot, head root, source, target.
HeadDerived(x) == <<x.Slot, x.BeaconBlockRoot, x.Source, x.Target>>

Answered(r) == att[r].pc = "done" /\ att[r].res.err = "nil"
Computed == {r \in AttReqs : att[r].via = "computed"}

\* C17: while all requests made ask for the same slot and every Put has
\* succeeded, at most one request has computed the data and put it into the
\* cache, exactly one once some request is answered, every other answered
\* request found the entry in its first or second cache check, and all
\* answered requests got the same slot, head root, source and target.
C17_ComputedOnce ==
  LET made == {r \in AttReqs : att[r].pc # "idle"}
  IN (/\ \A r1, r2 \in made : att[r1].Slot = att[r2].Slot
      /\ \A r \in made : ~att[r].putFailed)
     =>
     /\ Cardinality(Computed) <= 1
     /\ (\E r \in AttReqs : Answered(r)) => Cardinality(Computed) = 1
     /\ \A r \in AttReqs :
          Answered(r) /\ r \notin Computed => att[r].via \in {"first", "second"}
     /\ \A r1, r2 \in AttReqs :
          Answered(r1) /\ Answered(r2)
            => HeadDerived(att[r1].res) = HeadDerived(att[r2].res)

\* One request computed the data, another one missed in its first check and
\* found the entry in its second, and the head has changed meanwhile.
C17_Witness ==
  \E r1, r2 \in AttReqs :
    /\ Answered(r1) /\ att[r1].via = "computed"
    /\ Answered(r2) /\ att[r2].via = "second"
    /\ att[r1].Slot = att[r2].Slot
    /\ chain.changes > 0
    /\ chain.head # att[r2].res.BeaconBlockRoot[2]

\* The call is a SubmitSignedContributionAndProof that has returned.
ContributionReturned ==
  sub.rpc = "SubmitSignedContributionAndProof" /\ sub.pc = "returned"

Sent == feed # <<>>
Saved == pool # <<>>
BroadcastsSucceeded == \A g \in DOMAIN gor : gor[g].state = "ok"

\* C21: in SubmitSignedContributionAndProof the broadcast is started and the
\* save is called once whatever the other does; the event is in the feed only
\* when the save succeeded and the broadcast has completed without error, at
\* most once, and once the call has returned it is there exactly when both
\* succeeded; the call returns nil when the event was sent and Internal
\* otherwise.
C21_EventIffBothSucceeded ==
  sub.rpc = "SubmitSignedContributionAndProof" =>
    /\ Sent => Saved /\ BroadcastsSucceeded /\ Len(feed) = 1
    /\ sub.pc = "returned" =>
         /\ Len(gor) = 1 /\ sub.saves = 1
         /\ Sent <=> (Saved /\ BroadcastsSucceeded)
         /\ sub.err = IF Sent THEN "nil" ELSE "Internal"

\* The call returned Internal because the broadcast failed, after a save that
\* succeeded; no event was sent.
C21_Witness ==
  /\ ContributionReturned
  /\ sub.err = "Internal"
  /\ Saved /\ gor[1].state = "err"
  /\ ~Sent

\* C24: in SubmitSyncMessage, once the loop is over there is one broadcast per
\* index returned by HeadSyncCommitteeIndices, in order, on subnet
\* index / (SyncCommitteeSize / SyncCommitteeSubnetCount); a returned call has
\* called the pool's Save exactly once whatever the broadcasts did, and has
\* returned nil exactly when the save and every broadcast succeeded; unless
\* fetching the indices failed, and then nothing was broadcast or saved.
C24_BroadcastsAndSave ==
  sub.rpc = "SubmitSyncMessage" =>
    LET fetchFailed == sub.pc = "returned" /\ sub.saves = 0
    IN /\ sub.pc \in {"save", "wait", "returned"} /\ ~fetchFailed =>
            /\ Len(gor) = Len(sub.indices)
            /\ \A k \in DOMAIN gor :
                 gor[k].subnet =
                   sub.indices[k] \div (SyncCommitteeSize \div SyncCommitteeSubnetCount)
       /\ sub.pc = "returned" /\ ~fetchFailed =>
            /\ sub.saves = 1
            /\ Len(pool) <= 1
            /\ sub.err = "nil" <=> (Saved /\ BroadcastsSucceeded)
       /\ fetchFailed => gor = <<>> /\ pool = <<>> /\ sub.err = "Internal"

\* A validator with two committee indices on different subnets: both
\* broadcasts succeeded, the message is saved, the call returned nil.
C24_Witness ==
  /\ sub.rpc = "SubmitSyncMessage" /\ sub.pc = "returned" /\ sub.err = "nil"
  /\ Len(gor) = 2 /\ gor[1].subnet # gor[2].subnet
  /\ pool = <<"SubmitSyncMessage">>

\* What holds of request r in every state: an answer from the cache was given
\* without asking IsOptimistic; IsOptimistic is asked only after both checks,
\* with the cache holding no entry for the slot; a request that ended in an
\* error has put nothing, and one that ended in BadRequest has not read the
\* cache either.
OptimisticAfterMiss(r) ==
  LET a == att[r]
      err == IF a.pc = "done" THEN a.res.err ELSE "pending"
  IN /\ a.via \in {"first", "second"} => ~a.asked /\ a.puts = 0
     /\ a.asked => a.gets = 2
     /\ a.pc = "optimistic" => ~Hit(Get, r)
     /\ err = "Unavailable" => a.asked /\ a.puts = 0
     /\ err = "Internal" => a.asked /\ a.puts = 0
     /\ err = "BadRequest" => ~a.asked /\ a.gets = 0 /\ a.puts = 0

\* What holds of every step of request r: a call for a slot that is not the
\* current one returns BadRequest and leaves cache and lock alone; a cache
\* check that finds an entry for the slot returns it; IsOptimistic on an
\* optimistic node returns Unavailable, or Internal when it fails, and leaves
\* the cache alone.
OptimisticStep(r) ==
  LET a == att[r]
      b == att'[r]
  IN /\ a.pc = "idle" /\ b.pc # "idle" /\ b.Slot # chain.slot =>
          /\ b.pc = "done" /\ b.res.err = "BadRequest"
          /\ attCache' = attCache /\ attLock' = attLock
     /\ a.pc \in {"check1", "check2"} /\ b.pc # a.pc /\ Hit(attCache, r) =>
          /\ b.pc = "done" /\ b.res = FromCache(attCache, r)
          /\ ~b.asked
     /\ a.pc = "optimistic" /\ b.pc # a.pc =>
          /\ b.asked
          /\ chain.optimistic => b.pc = "done" /\ b.res.err \in {"Unavailable", "Internal"}
          /\ b.pc = "done" => b.res.err \in {"Unavailable", "Internal"} /\ attCache' = attCache

\* C22: GetAttestationData asks for the optimistic status only on a cache
\* miss: an entry for the requested slot is returned without asking; with no
\* such entry an optimistic node answers Unavailable (Internal when the check
\* fails) and the cache is left unchanged; a request for a slot that is not
\* the current one gets BadRequest without the cache being read or written.
C22_OptimisticOnlyOnMiss ==
  /\ [](\A r \in AttReqs : OptimisticAfterMiss(r))
  /\ [][\A r \in AttReqs : OptimisticStep(r)]_vars

\* On a node that is optimistic now, one request was answered, without asking,
\* from the entry another had put.
C22_Witness ==
  /\ chain.optimistic
  /\ \E r1, r2 \in AttReqs :
       /\ att[r1].via = "computed"
       /\ att[r2].via \in {"first", "second"} /\ att[r2].pc = "done" /\ ~att[r2].asked

\* ======================================================================
\* Package core (validator.go): SubmitSignedAggregateSelectionProof
\* ======================================================================
BLSSignatureLength == 96     \* fieldparams.BLSSignatureLength

\* make([]byte, fieldparams.BLSSignatureLength)
emptySig == [j \in 1..BLSSignatureLength |-> 0]

\* bytes.Equal
BytesEqual(a, b) == a = b

\* Signature bytes a request may carry: all zero, not all zero, all zero but
\* a byte short, none.
SignatureBytes ==
  {emptySig,
   [j \in 1..BLSSignatureLength |-> IF j = 1 THEN 7 ELSE 0],
   [j \in 1..(BLSSignatureLength - 1) |-> 0],
   <<>>}

\* A nil pointer or interface, and the requests: each level may be nil.
NilValue == [nil |-> TRUE]
AttestationDatas == {NilValue} \cup {[nil |-> FALSE, Slot |-> slot] : slot \in Slots}
Attestations == {NilValue} \cup {[nil |-> FALSE, Data |-> d] : d \in AttestationDatas}
AggregateAttAndProofs ==
  {NilValue} \cup {[nil |-> FALSE, Aggregate |-> a, SelectionProof |-> p] :
                     a \in Attestations, p \in SignatureBytes}
SignedAggregateAttAndProofs ==
  {NilValue} \cup {[nil |-> FALSE, Message |-> m, Signature |-> sig] :
                     m \in AggregateAttAndProofs, sig \in SignatureBytes}

\* What the handler's surroundings will answer: ValidateAttestationTime and
\* Broadcaster.Broadcast.
AggregateSurroundings == [rpc : {"state"}, timely : BOOLEAN, broadcastOk : BOOLEAN]

\* errors.New(msg), and the error wrapping a broadcast failure.
ErrorsNew(msg) == [type |-> "errorString", msg |-> msg]
AggregateBroadcastFailedError(err) == [type |-> "AggregateBroadcastFailedError", err |-> err]

\* What the call returns (err, Err) and what it handed to the Broadcaster.
AggregateReturn(reason, e, sent) ==
  [rpc |-> "SubmitSignedAggregateSelectionProof", err |-> reason, Err |-> e,
   broadcast |-> sent]

AggregateNil ==
  AggregateReturn("BadRequest", ErrorsNew("signed aggregate request can't be nil"), <<>>)

\* The handler with only the signature compared with emptySig.
AggregateResultSignatureOnly(agg, s) ==
  IF agg.nil THEN AggregateNil
  ELSE IF agg.Message.nil THEN AggregateNil
  ELSE IF agg.Message.Aggregate.nil THEN AggregateNil
  ELSE IF agg.Message.Aggregate.Data.nil THEN AggregateNil
  ELSE IF BytesEqual(agg.Signature, emptySig)
    THEN AggregateReturn("BadRequest",
                         ErrorsNew("signed signatures can't be zero hashes"), <<>>)
  ELSE IF ~s.timely
    THEN AggregateReturn("BadRequest",
           ErrorsNew("attestation slot is no longer valid from current time"), <<>>)
  ELSE IF ~s.broadcastOk
    THEN AggregateReturn("Internal",
           AggregateBroadcastFailedError(ErrorsNew("broadcast")), <<agg>>)
  ELSE AggregateReturn("nil", NilValue, <<agg>>)

\* What SubmitSignedAggregateSelectionProof does with agg, surroundings s.
AggregateResult(agg, s) ==
  IF agg.nil THEN AggregateNil
  ELSE LET attAndProof == agg.Message
       IN IF attAndProof.nil THEN AggregateNil
  ELSE LET aggregateVal == attAndProof.Aggregate
       IN IF aggregateVal.nil THEN AggregateNil
  ELSE LET data == aggregateVal.Data
       IN IF data.nil THEN AggregateNil
  ELSE IF \/ BytesEqual(agg.Signature, emptySig)
          \/ BytesEqual(attAndProof.SelectionProof, emptySig)
    THEN AggregateReturn("BadRequest",
                         ErrorsNew("signed signatures can't be zero hashes"), <<>>)
  ELSE IF ~s.timely
    THEN AggregateReturn("BadRequest",
           ErrorsNew("attestation slot is no longer valid from current time"), <<>>)
  ELSE IF ~s.broadcastOk
    THEN AggregateReturn("Internal",
           AggregateBroadcastFailedError(ErrorsNew("broadcast")), <<agg>>)
  ELSE AggregateReturn("nil", NilValue, <<agg>>)

SubmitSignedAggregateSelectionProof ==
  /\ resp = NoCall
  /\ resp' = AggregateResult(req, st)
  /\ UNCHANGED <<bufVars, req, st, attVars, subVars>>

InitAggregate ==
  /\ Fresh
  /\ req \in SignedAggregateAttAndProofs
  /\ st \in AggregateSurroundings
  /\ resp = NoCall
  /\ attCache = NoEntry
  /\ attLock = Unlocked
  /\ chain = NoCall
  /\ att = <<>>
  /\ sub = NoCall
  /\ gor = <<>>
  /\ pool = <<>>
  /\ feed = <<>>

NextAggregate == SubmitSignedAggregateSelectionProof

SpecAggregate == InitAggregate /\ [][NextAggregate]_vars

\* The request, its aggregate-and-proof, attestation and data are non-nil and
\* neither signature is the all-zero 96 bytes.
WellFormed(agg) ==
  /\ ~agg.nil
  /\ ~agg.Message.nil
  /\ ~agg.Message.Aggregate.nil
  /\ ~agg.Message.Aggregate.Data.nil
  /\ agg.Signature # [j \in 1..96 |-> 0]
  /\ agg.Message.SelectionProof # [j \in 1..96 |-> 0]

\* C23: SubmitSignedAggregateSelectionProof hands to the Broadcaster exactly
\* the well-formed requests whose slot passes the time check, and those
\* unchanged; any other request gets BadRequest; a failed broadcast gets
\* Internal wrapping AggregateBroadcastFailedError, a successful one nil.
C23_BroadcastOnlyValid ==
  resp.rpc = "SubmitSignedAggregateSelectionProof" =>
    LET valid == WellFormed(req) /\ st.timely
    IN /\ resp.broadcast = IF valid THEN <<req>> ELSE <<>>
       /\ ~valid => resp.err = "BadRequest"
       /\ valid /\ ~st.broadcastOk =>
            /\ resp.err = "Internal"
            /\ resp.Err.type = "AggregateBroadcastFailedError"
       /\ valid /\ st.broadcastOk => resp.err = "nil"

\* A request whose selection proof is all zero, with everything else in order,
\* was refused without a broadcast.
C23_Witness ==
  /\ resp.rpc = "SubmitSignedAggregateSelectionProof"
  /\ ~req.nil /\ ~req.Message.nil /\ ~req.Message.Aggregate.nil
  /\ ~req.Message.Aggregate.Data.nil
  /\ req.Signature \notin {emptySig, <<>>}
  /\ req.Message.SelectionProof = emptySig
  /\ st.timely /\ st.broadcastOk
  /\ resp.err = "BadRequest" /\ resp.broadcast = <<>>

\* ======================================================================
\* Package core (validator.go): AggregatedSigAndAggregationBits
\* ======================================================================
MaxMsgs == 2            \* longest req.Msgs

subCommitteeSize == SyncCommitteeSize \div SyncCommitteeSubnetCount

\* The signature of validator v over the block root of head h, compressed.
MessageSignature(v, h) ==
  [j \in 1..BLSSignatureLength |-> IF j = 1 THEN v + 1 ELSE IF j = 2 THEN h ELSE 0]

\* The sync committee messages a request may carry: any validator's over any
\* head's block root, with its signature or with bytes that are no signature.
SyncCommitteeMessages ==
  {[BlockRoot |-> HeadRoot(h), ValidatorIndex |-> v,
    Signature |-> IF signed THEN MessageSignature(v, h) ELSE <<>>] :
     h \in Heads, v \in Validators, signed \in BOOLEAN}

SignatureRequests ==
  [rpc : {"request"},
   Msgs : ListsUpTo(SyncCommitteeMessages, MaxMsgs),
   BlockRoot : {HeadRoot(1)},
   SubnetId : 0..(SyncCommitteeSubnetCount - 1),
   Slot : {1}]

\* The head state's sync committee (which validator sits at which committee
\* index) and whether HeadSyncCommitteeIndices succeeds.
CommitteeStates ==
  [rpc : {"state"}, committee : [CommitteeIndices -> Validators], fetchOk : BOOLEAN]

\* HeadFetcher.HeadSyncCommitteeIndices: the committee indices of validator v,
\* ascending.
RECURSIVE IndicesFrom(_, _, _)
IndicesFrom(s, v, i) ==
  IF i >= SyncCommitteeSize THEN <<>>
  ELSE (IF s.committee[i] = v THEN <<i>> ELSE <<>>) \o IndicesFrom(s, v, i + 1)

SyncCommitteeIndicesOf(s, v) == IndicesFrom(s, v, 0)

\* ethpb.NewSyncCommitteeAggregationBits(): one bit per subcommittee position.
NewSyncCommitteeAggregationBits == [p \in 0..(subCommitteeSize - 1) |-> FALSE]

\* The inner loop's body with the test of the bit left out.
BitStepAlways(acc, r, k, index) ==
  LET subnetIndex == index \div subCommitteeSize
      indexMod == index % subCommitteeSize
  IN IF subnetIndex = r.SubnetId
     THEN [acc EXCEPT !.bits[indexMod] = TRUE,
                      !.sigs = Append(@, r.Msgs[k].Signature),
                      !.from = Append(@, [msg |-> k, bit |-> indexMod])]
     ELSE acc

\* The inner loop's body for committee index `index` of message k of request
\* r.  from is history: which message set which bit, one entry per signature.
BitStep(acc, r, k, index) ==
  LET subnetIndex == index \div subCommitteeSize
      indexMod == index % subCommitteeSize
  IN IF subnetIndex = r.SubnetId /\ ~acc.bits[indexMod]
     THEN [acc EXCEPT !.bits[indexMod] = TRUE,
                      !.sigs = Append(@, r.Msgs[k].Signature),
                      !.from = Append(@, [msg |-> k, bit |-> indexMod])]
     ELSE acc

RECURSIVE IndexLoop(_, _, _, _)
IndexLoop(acc, r, k, indices) ==
  IF indices = <<>> THEN acc
  ELSE IndexLoop(BitStep(acc, r, k, Head(indices)), r, k, Tail(indices))

\* The outer loop from message k on; a failing HeadSyncCommitteeIndices ends it.
RECURSIVE MsgLoop(_, _, _, _)
MsgLoop(acc, r, s, k) ==
  IF k > Len(r.Msgs) \/ acc.err # "nil" THEN acc
  ELSE LET msg == r.Msgs[k]
       IN IF ~BytesEqual(r.BlockRoot, msg.BlockRoot) THEN MsgLoop(acc, r, s, k + 1)
          ELSE IF ~s.fetchOk
            THEN [acc EXCEPT !.err = "could not get sync subcommittee index"]
          ELSE MsgLoop(IndexLoop(acc, r, k, SyncCommitteeIndicesOf(s, msg.ValidatorIndex)),
                       r, s, k + 1)

\* bls.MultipleSignaturesFromBytes succeeds on 96-byte signatures;
\* bls.AggregateSignatures(...).Marshal() is modelled by the bytewise sum.
Decompressible(sigs) == \A k \in DOMAIN sigs : Len(sigs[k]) = BLSSignatureLength

RECURSIVE SumAt(_, _)
SumAt(sigs, j) == IF sigs = <<>> THEN 0 ELSE (Head(sigs)[j] + SumAt(Tail(sigs), j)) % 256

AggregateSignatures(sigs) == [j \in 1..BLSSignatureLength |-> SumAt(sigs, j)]

\* make([]byte, 96) with aggregatedSig[0] = 0xC0
InfinitySignature == [j \in 1..BLSSignatureLength |-> IF j = 1 THEN 192 ELSE 0]

\* What AggregatedSigAndAggregationBits returns for request r on state s (and
\* the sigs it collected, with their history).
SigAndBits(r, s) ==
  LET done == MsgLoop([err |-> "nil", bits |-> NewSyncCommitteeAggregationBits,
                       sigs |-> <<>>, from |-> <<>>], r, s, 1)
      failed(e) == [rpc |-> "AggregatedSigAndAggregationBits", err |-> e]
  IN IF done.err # "nil" THEN failed(done.err)
     ELSE IF Len(done.sigs) # 0 /\ ~Decompressible(done.sigs)
       THEN failed("could not decompress signatures")
     ELSE [rpc |-> "AggregatedSigAndAggregationBits", err |-> "nil",
           aggregatedSig |-> IF Len(done.sigs) # 0 THEN AggregateSignatures(done.sigs)
                             ELSE InfinitySignature,
           bits |-> done.bits, sigs |-> done.sigs, from |-> done.from]

AggregatedSigAndAggregationBits ==
  /\ resp = NoCall
  /\ resp' = SigAndBits(req, st)
  /\ UNCHANGED <<bufVars, req, st, attVars, subVars>>

InitSignatures ==
  /\ Fresh
  /\ req \in SignatureRequests
  /\ st \in CommitteeStates
  /\ resp = NoCall
  /\ attCache = NoEntry
  /\ attLock = Unlocked
  /\ chain = NoCall
  /\ att = <<>>
  /\ sub = NoCall
  /\ gor = <<>>
  /\ pool = <<>>
  /\ feed = <<>>

NextSignatures == AggregatedSigAndAggregationBits

SpecSignatures == InitSignatures /\ [][NextSignatures]_vars

\* The messages of the request that can set bit p: their block root is the
\* requested one and their validator sits at a committee index of the
\* requested subnet whose position in the subcommittee is p.
Setters(p) ==
  {k \in DOMAIN req.Msgs :
     /\ req.Msgs[k].BlockRoot = req.BlockRoot
     /\ \E i \in CommitteeIndices :
          /\ st.committee[i] = req.Msgs[k].ValidatorIndex
          /\ i \div (SyncCommitteeSize \div SyncCommitteeSubnetCount) = req.SubnetId
          /\ i % (SyncCommitteeSize \div SyncCommitteeSubnetCount) = p}

\* C25: when AggregatedSigAndAggregationBits succeeds, it has collected as many
\* signatures as bits are set; a bit is set only if (and whenever) some
\* message with the requested block root has a committee index of the
\* requested subnet at that position; every set bit has exactly one signature,
\* that of the first such message; with no signature collected the result is
\* the infinity signature, 0xC0 followed by 95 zero bytes, and no bit is set.
C25_OneSignaturePerBit ==
  (resp.rpc = "AggregatedSigAndAggregationBits" /\ resp.err = "nil") =>
    LET set == {p \in DOMAIN resp.bits : resp.bits[p]}
    IN /\ Len(resp.sigs) = Cardinality(set)
       /\ Len(resp.from) = Len(resp.sigs)
       /\ \A p \in DOMAIN resp.bits : resp.bits[p] <=> Setters(p) # {}
       /\ \A p \in set : Cardinality({j \in DOMAIN resp.from : resp.from[j].bit = p}) = 1
       /\ \A j \in DOMAIN resp.from :
            LET e == resp.from[j]
            IN /\ e.bit \in set
               /\ e.msg \in Setters(e.bit)
               /\ \A k \in Setters(e.bit) : e.msg <= k
               /\ resp.sigs[j] = req.Msgs[e.msg].Signature
       /\ Len(resp.sigs) = 0 =>
            /\ resp.aggregatedSig = [j \in 1..96 |-> IF j = 1 THEN 192 ELSE 0]
            /\ set = {}

\* Two messages with the requested block root could set the same bit; the bit
\* is set and the one signature collected is the first message's.
C25_Witness ==
  /\ resp.rpc = "AggregatedSigAndAggregationBits" /\ resp.err = "nil"
  /\ \E p \in DOMAIN resp.bits : Setters(p) = {1, 2} /\ resp.bits[p]
  /\ Len(resp.sigs) = 1
  /\ resp.from[1].msg = 1

====
